---------------------------- MODULE Spec2Model ----------------------------
(***************************************************************************)
(* Layout analysis of paves.miner (src/src/paves/miner.py): geometry       *)
(* predicates, the Plane index, text lines / boxes / groups, and the       *)
(* grouping passes group_objects, group_textlines, group_textboxes and     *)
(* analyze.                                                                *)
(*                                                                         *)
(* Numbers.  Coordinates are integers.  The float parameters of LAParams   *)
(* are fixed-point numbers n/Den, and every comparison of the source that  *)
(* multiplies a length by a parameter is written with both sides scaled by *)
(* Den, so it is decided exactly.  A bare LTComponent (SpecPlane) carries  *)
(* fractional coordinates, as integers scaled by Den.                      *)
(*                                                                         *)
(* Objects.  Python objects have identity: every component record carries  *)
(* an "id" field that tells two objects with the same geometry apart.      *)
(***************************************************************************)
EXTENDS Integers, Sequences, FiniteSets, TLC

VARIABLES
    la,     \* the LAParams in force
    cont,   \* SpecContainer: one expandable container being filled
    go,     \* SpecLines: the locals and the output of one group_objects run
    gl,     \* SpecBoxes: the locals and the output of one group_textlines run
    gb,     \* SpecCluster: the locals of one group_textboxes run
    an,     \* SpecAnalyze: one layout container and its analyze() call
    pl,     \* SpecPlane: one Plane, the calls made on it and its last find
    ov,     \* SpecOverlap: two components and their overlap amounts
    ex,     \* SpecExtract: one extract_page call and the page it builds
    wd      \* SpecWords: the locals and the output of one words() run

vars == <<la, cont, go, gl, gb, an, pl, ov, ex, wd>>

-----------------------------------------------------------------------------
(* Bounds of the model *)

\* characters handed to one group_objects run
MaxChars == 3
\* add() calls made on one container
MaxAdds == 3
\* text lines handed to one group_textlines run
MaxLines == 3
\* text boxes handed to one group_textboxes run
MaxBoxes == 4
\* text boxes handed to a group_textboxes run that is followed to its end
\* under fairness
MaxFairBoxes == 3
\* text boxes handed to the sort of the boxes_flow None branch
MaxSorted == 3
\* cells of the coordinate lattice along x (coordinates are 0..MaxX cells)
MaxX == 3
\* cells of the coordinate lattice along y
MaxY == 2
\* largest width or height of a character, in cells
MaxSize == 2

-----------------------------------------------------------------------------
(* Program constants *)

INT32_MAX == 2147483647
INT32_MIN == (-2147483647) - 1
\* Plane.__init__(bbox, gridsize=50)
GridSize == 50
\* denominator of the fixed-point LAParams values (0.5 is 5/Den, 2.0 is 20/Den)
Den == 10
\* one lattice cell, in user-space units (a multiple of Den)
Unit == GridSize

None == [cls |-> "None"]

Min2(a, b) == IF a <= b THEN a ELSE b
Max2(a, b) == IF a >= b THEN a ELSE b
Abs(a) == IF a < 0 THEN -a ELSE a

SeqToSet(s) == {s[i] : i \in 1..Len(s)}

-----------------------------------------------------------------------------
(* LTComponent *)

width(o) == o.x1 - o.x0
height(o) == o.y1 - o.y0

LTComponent_is_empty(o) == width(o) <= 0 \/ height(o) <= 0

is_hoverlap(self, obj) == obj.x0 <= self.x1 /\ self.x0 <= obj.x1

hdistance(self, obj) ==
    IF is_hoverlap(self, obj) THEN 0
    ELSE Min2(Abs(self.x0 - obj.x1), Abs(self.x1 - obj.x0))

hoverlap(self, obj) ==
    IF is_hoverlap(self, obj)
    THEN Min2(Abs(self.x0 - obj.x1), Abs(self.x1 - obj.x0))
    ELSE 0

is_voverlap(self, obj) == obj.y0 <= self.y1 /\ self.y0 <= obj.y1

vdistance(self, obj) ==
    IF is_voverlap(self, obj) THEN 0
    ELSE Min2(Abs(self.y0 - obj.y1), Abs(self.y1 - obj.y0))

voverlap(self, obj) ==
    IF is_voverlap(self, obj)
    THEN Min2(Abs(self.y0 - obj.y1), Abs(self.y1 - obj.y0))
    ELSE 0

-----------------------------------------------------------------------------
(* LAParams.  boxes_flow is None or a fixed-point number. *)

LAParams(lo, cm, lm, wm, bf, dv, at) ==
    [line_overlap |-> lo, char_margin |-> cm, line_margin |-> lm,
     word_margin |-> wm, boxes_flow |-> bf, detect_vertical |-> dv,
     all_texts |-> at]

\* boxes_flow: None, or the number v/Den
NoFlow == [is_none |-> TRUE, v |-> 0]
Flow(v) == [is_none |-> FALSE, v |-> v]

\* a Python value handed to the constructor as boxes_flow: None, an int n
\* (v = Den * n), a float v/Den or nan, a bool (an int: False is 0, True is
\* 1), a str
PyNone == [type |-> "NoneType", v |-> 0, nan |-> FALSE]
PyInt(n) == [type |-> "int", v |-> Den * n, nan |-> FALSE]
PyFloat(v) == [type |-> "float", v |-> v, nan |-> FALSE]
PyNaN == [type |-> "float", v |-> 0, nan |-> TRUE]
PyBool(b) == [type |-> "bool", v |-> IF b THEN Den ELSE 0, nan |-> FALSE]
PyStr(t) == [type |-> "str", v |-> 0, nan |-> FALSE, text |-> t]

\* isinstance(x, int) or isinstance(x, float); bool is a subclass of int
IsNumber(x) == x.type \in {"int", "float", "bool"}

\* LAParams._validate without a check
LAParams_validate_Anything(boxes_flow) == "ok"

\* LAParams._validate: "ok" when it returns, else the exception it raises
LAParams_validate(boxes_flow) ==
    IF boxes_flow.type = "NoneType" THEN "ok"
    ELSE IF ~ IsNumber(boxes_flow) THEN "PDFTypeError"
    ELSE IF ~ (~ boxes_flow.nan /\ -Den <= boxes_flow.v /\ boxes_flow.v <= Den)
    THEN "PDFValueError"
    ELSE "ok"

\* LAParams.__init__ on the arguments args: the object made, or the
\* exception raised
LAParams_init(args) ==
    LET r == LAParams_validate(args.boxes_flow)
        bf == IF args.boxes_flow.type = "NoneType" THEN NoFlow
              ELSE Flow(args.boxes_flow.v)
    IN  IF r = "ok"
        THEN [cls |-> "LAParams", args |-> args,
              self |-> LAParams(args.line_overlap, args.char_margin, args.line_margin,
                                args.word_margin, bf, args.detect_vertical,
                                args.all_texts)]
        ELSE [cls |-> r, args |-> args, self |-> None]

\* LAParams() with the defaults of the constructor
DefaultLAParams == LAParams(5, 20, 5, 1, Flow(5), FALSE, FALSE)

-----------------------------------------------------------------------------
(* Items: LTChar, LTAnno *)

LTChar(id, x0, y0, x1, y1, text) ==
    [cls |-> "LTChar", id |-> id, x0 |-> x0, y0 |-> y0, x1 |-> x1, y1 |-> y1,
     text |-> text]

LTAnno(text) == [cls |-> "LTAnno", text |-> text]

HasBBox(o) == o.cls # "LTAnno"

-----------------------------------------------------------------------------
(* LTContainer / LTExpandableContainer *)

\* LTContainer.add: append the child, leave the bbox alone
LTContainer_add(self, obj) == [self EXCEPT !.objs = Append(@, obj)]

\* LTComponent.set_bbox
set_bbox(self, x0, y0, x1, y1) ==
    [self EXCEPT !.x0 = x0, !.y0 = y0, !.x1 = x1, !.y1 = y1]

LTExpandableContainer_add_NoGrow(self, obj) ==
    LET s == LTContainer_add(self, obj)
    IN  set_bbox(s, Min2(self.x0, obj.x0), Min2(self.y0, obj.y0),
                    obj.x1, obj.y1)

\* LTExpandableContainer.add: append, then grow the bbox over the child
LTExpandableContainer_add(self, obj) ==
    LET s == LTContainer_add(self, obj)
    IN  set_bbox(s, Min2(self.x0, obj.x0), Min2(self.y0, obj.y0),
                    Max2(self.x1, obj.x1), Max2(self.y1, obj.y1))

\* LTExpandableContainer.__init__ as run by every expandable subclass; "edge"
\* is the line's running far edge (_x1 or _y0), unused by boxes and groups
NewContainer(cls, id, word_margin, edge) ==
    [cls |-> cls, id |-> id, x0 |-> INT32_MAX, y0 |-> INT32_MAX,
     x1 |-> INT32_MIN, y1 |-> INT32_MIN, objs |-> <<>>,
     word_margin |-> word_margin, edge |-> edge, index |-> -1]

LTTextLineHorizontal(id, word_margin) ==
    NewContainer("LTTextLineHorizontal", id, word_margin, INT32_MAX)

LTTextLineVertical(id, word_margin) ==
    NewContainer("LTTextLineVertical", id, word_margin, INT32_MIN)

\* floor(word_margin * max(obj.width, obj.height)).  For integers a, b and a
\* real m, a < b - m holds exactly when a < b - floor(m).
WordMargin(self, obj) ==
    (self.word_margin * Max2(width(obj), height(obj))) \div Den

LTTextLineHorizontal_add_AlwaysGlue(self, obj) ==
    LET glue == obj.cls = "LTChar" /\ self.edge < obj.x0 - WordMargin(self, obj)
        s1 == IF glue THEN LTContainer_add(self, LTAnno(" ")) ELSE self
        s2 == [s1 EXCEPT !.edge = obj.x1]
    IN  LTExpandableContainer_add(s2, obj)

LTTextLineHorizontal_add(self, obj) ==
    LET glue == /\ obj.cls = "LTChar"
                /\ self.word_margin # 0
                /\ self.edge < obj.x0 - WordMargin(self, obj)
        s1 == IF glue THEN LTContainer_add(self, LTAnno(" ")) ELSE self
        s2 == [s1 EXCEPT !.edge = obj.x1]
    IN  LTExpandableContainer_add(s2, obj)

LTTextLineVertical_add(self, obj) ==
    LET glue == /\ obj.cls = "LTChar"
                /\ self.word_margin # 0
                /\ obj.y1 + WordMargin(self, obj) < self.edge
        s1 == IF glue THEN LTContainer_add(self, LTAnno(" ")) ELSE self
        s2 == [s1 EXCEPT !.edge = obj.y0]
    IN  LTExpandableContainer_add(s2, obj)

\* the add() that Python dispatches to for a container of class self.cls
add(self, obj) ==
    CASE self.cls = "LTTextLineHorizontal" -> LTTextLineHorizontal_add(self, obj)
      [] self.cls = "LTTextLineVertical" -> LTTextLineVertical_add(self, obj)
      [] OTHER -> LTExpandableContainer_add(self, obj)

\* LTTextLine.analyze that appends nothing
LTTextLine_analyze_NoNewline(self) == self

\* LTTextLine.analyze: the children's analyze does nothing; append the newline
LTTextLine_analyze(self) == LTContainer_add(self, LTAnno("\n"))

-----------------------------------------------------------------------------
(* LTLayoutContainer.group_objects.  The generator's locals are obj0 and     *)
(* line; "out" collects the lines it yields, "made" counts the lines it has *)
(* constructed (the identity of the next one), "pos" the objects consumed.  *)

halign(obj0, obj1, p) ==
    /\ is_voverlap(obj0, obj1)
    /\ Min2(height(obj0), height(obj1)) * p.line_overlap
          < Den * voverlap(obj0, obj1)
    /\ Den * hdistance(obj0, obj1)
          < Max2(width(obj0), width(obj1)) * p.char_margin

\* valign as with detect_vertical off
valign_Off(obj0, obj1, p) == FALSE

valign(obj0, obj1, p) ==
    /\ p.detect_vertical
    /\ is_hoverlap(obj0, obj1)
    /\ Min2(width(obj0), width(obj1)) * p.line_overlap
          < Den * hoverlap(obj0, obj1)
    /\ Den * vdistance(obj0, obj1)
          < Max2(height(obj0), height(obj1)) * p.char_margin

group_objects_start(objs) ==
    [cls |-> "group_objects", objs |-> objs, pos |-> 0, obj0 |-> None,
     line |-> None, out |-> <<>>, made |-> 0, pc |-> "loop"]

\* the loop body with a line that is not continued closed and, when one
\* alignment holds, a new line opened at once
group_objects_body_Reopen(st, obj1, p) ==
    LET obj0 == st.obj0
        line == st.line
        h == halign(obj0, obj1, p)
        v == valign(obj0, obj1, p)
        next == [st EXCEPT !.pos = @ + 1, !.obj0 = obj1]
        closed == IF line.cls # "None" THEN Append(st.out, line) ELSE st.out
    IN  IF obj0.cls = "None" THEN next
        ELSE IF \/ (h /\ line.cls = "LTTextLineHorizontal")
                \/ (v /\ line.cls = "LTTextLineVertical")
        THEN [next EXCEPT !.line = add(line, obj1)]
        ELSE IF line.cls # "None" /\ h = v
        THEN [next EXCEPT !.out = closed, !.line = None]
        ELSE IF v /\ ~h
        THEN [next EXCEPT
                !.out = closed,
                !.line = add(add(LTTextLineVertical(st.made + 1, p.word_margin),
                                 obj0), obj1),
                !.made = @ + 1]
        ELSE IF h /\ ~v
        THEN [next EXCEPT
                !.out = closed,
                !.line = add(add(LTTextLineHorizontal(st.made + 1, p.word_margin),
                                 obj0), obj1),
                !.made = @ + 1]
        ELSE [next EXCEPT
                !.out = Append(@, add(LTTextLineHorizontal(st.made + 1,
                                                           p.word_margin), obj0)),
                !.line = None,
                !.made = @ + 1]

\* one pass of "for obj1 in objs", obj0 = obj1 included
group_objects_body(st, obj1, p) ==
    LET obj0 == st.obj0
        line == st.line
        h == halign(obj0, obj1, p)
        v == valign(obj0, obj1, p)
        next == [st EXCEPT !.pos = @ + 1, !.obj0 = obj1]
    IN  IF obj0.cls = "None" THEN next
        ELSE IF \/ (h /\ line.cls = "LTTextLineHorizontal")
                \/ (v /\ line.cls = "LTTextLineVertical")
        THEN [next EXCEPT !.line = add(line, obj1)]
        ELSE IF line.cls # "None"
        THEN [next EXCEPT !.out = Append(@, line), !.line = None]
        ELSE IF v /\ ~h
        THEN [next EXCEPT
                !.line = add(add(LTTextLineVertical(st.made + 1, p.word_margin),
                                 obj0), obj1),
                !.made = @ + 1]
        ELSE IF h /\ ~v
        THEN [next EXCEPT
                !.line = add(add(LTTextLineHorizontal(st.made + 1, p.word_margin),
                                 obj0), obj1),
                !.made = @ + 1]
        ELSE [next EXCEPT
                !.out = Append(@, add(LTTextLineHorizontal(st.made + 1,
                                                           p.word_margin), obj0)),
                !.line = None,
                !.made = @ + 1]

group_objects_end_DropLast(st, p) ==
    IF st.line.cls = "None"
    THEN [st EXCEPT !.pc = "done"]
    ELSE [st EXCEPT !.out = Append(@, st.line), !.pc = "done"]

\* after the loop: a lone last object gets a line of its own; yield the line
group_objects_end(st, p) ==
    IF st.line.cls = "None"
    THEN [st EXCEPT
            !.line = add(LTTextLineHorizontal(st.made + 1, p.word_margin),
                         st.obj0),
            !.out = Append(@, add(LTTextLineHorizontal(st.made + 1,
                                                       p.word_margin), st.obj0)),
            !.made = @ + 1,
            !.pc = "done"]
    ELSE [st EXCEPT !.out = Append(@, st.line), !.pc = "done"]

\* list(self.group_objects(laparams, objs)) for a non-empty objs
RECURSIVE group_objects_run(_, _)
group_objects_run(st, p) ==
    IF st.pos < Len(st.objs)
    THEN group_objects_run(group_objects_body(st, st.objs[st.pos + 1], p), p)
    ELSE group_objects_end(st, p)

group_objects(p, objs) == group_objects_run(group_objects_start(objs), p).out

-----------------------------------------------------------------------------
(* Plane.  A rectangle handed to the plane is a record of x0, y0, x1, y1     *)
(* whose values are real numbers scaled by Den (find_neighbors widens a     *)
(* bbox by a fraction of a height).  _seq and the grid lists hold objects;  *)
(* _objs, the membership set, holds their identities.                       *)

\* LTComponent(bbox) with fractional coordinates: the fields are the
\* coordinates scaled by Den
LTComponent(id, x0, y0, x1, y1) ==
    [cls |-> "LTComponent", id |-> id, x0 |-> x0, y0 |-> y0, x1 |-> x1, y1 |-> y1]

\* (obj.x0, obj.y0, obj.x1, obj.y1) scaled by Den
Scaled(o) ==
    IF o.cls = "LTComponent"
    THEN [x0 |-> o.x0, y0 |-> o.y0, x1 |-> o.x1, y1 |-> o.y1]
    ELSE [x0 |-> Den * o.x0, y0 |-> Den * o.y0, x1 |-> Den * o.x1, y1 |-> Den * o.y1]

\* int(v) of Python for the real number n/Den: truncation towards zero
IntPart(n) == IF n >= 0 THEN n \div Den ELSE -((-n) \div Den)

\* drange(v0, v1, d): range(int(v0) // d, int(v1 + d) // d)
drange(v0, v1, d) ==
    { k \in (IntPart(v0) \div d)..((IntPart(v1 + Den * d) \div d) - 1) : TRUE }

\* Plane.__init__
Plane(bbox, gridsize) ==
    [x0 |-> bbox.x0, y0 |-> bbox.y0, x1 |-> bbox.x1, y1 |-> bbox.y1,
     gridsize |-> gridsize, seq |-> <<>>, objs |-> {}, grid |-> <<>>]

\* Plane._getrange: the grid cells <<grid_x, grid_y>> a rectangle touches,
\* none when it lies outside the plane
getrange_cells(self, r) ==
    IF \/ r.x1 <= Den * self.x0 \/ Den * self.x1 <= r.x0
       \/ r.y1 <= Den * self.y0 \/ Den * self.y1 <= r.y0
    THEN {}
    ELSE LET x0 == Max2(Den * self.x0, r.x0)
             y0 == Max2(Den * self.y0, r.y0)
             x1 == Min2(Den * self.x1, r.x1)
             y1 == Min2(Den * self.y1, r.y1)
         IN  drange(x0, x1, self.gridsize) \X drange(y0, y1, self.gridsize)

\* the cells of a set in the order _getrange yields them: grid_y in the outer
\* loop, grid_x in the inner one
CellSeq(S) ==
    [i \in 1..Cardinality(S) |->
        CHOOSE c \in S :
            Cardinality({ e \in S : e[2] < c[2] \/ (e[2] = c[2] /\ e[1] < c[1]) }) = i - 1]

getrange(self, r) ==
    \* the set of cells is bound as a value, so that it is computed once
    CHOOSE ks \in { CellSeq(S) : S \in {getrange_cells(self, r)} } : TRUE

\* Plane.add that puts the object in the grid only
Plane_add_GridOnly(self, obj) ==
    LET ks == getrange_cells(self, Scaled(obj))
        grid == [k \in (DOMAIN self.grid) \cup ks |->
                    IF k \in ks
                    THEN (IF k \in DOMAIN self.grid
                          THEN Append(self.grid[k], obj) ELSE <<obj>>)
                    ELSE self.grid[k]]
    IN  [self EXCEPT !.grid = grid]

\* Plane.add
Plane_add(self, obj) ==
    LET ks == getrange_cells(self, Scaled(obj))
        grid == [k \in (DOMAIN self.grid) \cup ks |->
                    IF k \in ks
                    THEN (IF k \in DOMAIN self.grid
                          THEN Append(self.grid[k], obj) ELSE <<obj>>)
                    ELSE self.grid[k]]
    IN  [self EXCEPT !.grid = grid, !.seq = Append(@, obj),
                     !.objs = @ \cup {obj.id}]

\* list.remove(obj): drop the first occurrence
RemoveFirst(s, id) ==
    IF \E i \in 1..Len(s) : s[i].id = id
    THEN LET i == CHOOSE i \in 1..Len(s) :
                    s[i].id = id /\ \A j \in 1..(i - 1) : s[j].id # id
         IN  SubSeq(s, 1, i - 1) \o SubSeq(s, i + 1, Len(s))
    ELSE s

\* Plane.remove that leaves the object a member
Plane_remove_GridOnly(self, obj) ==
    LET ks == getrange_cells(self, Scaled(obj))
        grid == [k \in DOMAIN self.grid |->
                    IF k \in ks THEN RemoveFirst(self.grid[k], obj.id)
                    ELSE self.grid[k]]
    IN  [self EXCEPT !.grid = grid]

\* Plane.remove (the object is a member)
Plane_remove(self, obj) ==
    LET ks == getrange_cells(self, Scaled(obj))
        grid == [k \in DOMAIN self.grid |->
                    IF k \in ks THEN RemoveFirst(self.grid[k], obj.id)
                    ELSE self.grid[k]]
    IN  [self EXCEPT !.grid = grid, !.objs = @ \ {obj.id}]

\* Plane.extend
RECURSIVE Plane_extend(_, _)
Plane_extend(self, objs) ==
    IF objs = <<>> THEN self
    ELSE Plane_extend(Plane_add(self, Head(objs)), Tail(objs))

\* Plane.__iter__
Plane_iter(self) == SelectSeq(self.seq, LAMBDA o : o.id \in self.objs)

\* the inner loop of Plane.find over one grid list: "done" is the set of
\* identities already seen, "found" the objects yielded so far
RECURSIVE find_in_list(_, _, _)
find_in_list(list, r, acc) ==
    IF list = <<>> THEN acc
    ELSE LET obj == Head(list)
         IN  IF obj.id \in acc.done
             THEN find_in_list(Tail(list), r, acc)
             ELSE LET seen == [acc EXCEPT !.done = @ \cup {obj.id}]
                  IN  IF \/ Scaled(obj).x1 <= r.x0 \/ r.x1 <= Scaled(obj).x0
                         \/ Scaled(obj).y1 <= r.y0 \/ r.y1 <= Scaled(obj).y0
                      THEN find_in_list(Tail(list), r, seen)
                      ELSE find_in_list(Tail(list), r,
                                        [seen EXCEPT !.found = Append(@, obj)])

RECURSIVE find_in_cells(_, _, _, _)
find_in_cells(self, ks, r, acc) ==
    IF ks = <<>> THEN acc
    ELSE IF Head(ks) \notin DOMAIN self.grid
    THEN find_in_cells(self, Tail(ks), r, acc)
    ELSE \* the scan of one grid list is bound as a value before the next
         \* cell is visited, so that it is computed once
         CHOOSE res \in { find_in_cells(self, Tail(ks), r, a) :
                            a \in {find_in_list(self.grid[Head(ks)], r, acc)} } : TRUE

\* Plane.find: the objects it yields, in order
Plane_find(self, r) ==
    \* the cells of _getrange are bound as a value, so that they are computed
    \* once
    CHOOSE found \in { find_in_cells(self, ks, r, [done |-> {}, found |-> <<>>]).found :
                         ks \in {getrange(self, r)} } : TRUE

-----------------------------------------------------------------------------
(* LTTextLine.find_neighbors and its alignment tests; the tolerance d is     *)
(* ratio * height (or width), scaled by Den                                  *)

_is_left_aligned_with(self, other, d) == Den * Abs(other.x0 - self.x0) <= d
_is_right_aligned_with(self, other, d) == Den * Abs(other.x1 - self.x1) <= d
_is_centrally_aligned_with_h(self, other, d) ==
    Den * Abs((other.x0 + other.x1) - (self.x0 + self.x1)) <= 2 * d
_is_same_height_as(self, other, d) == Den * Abs(height(other) - height(self)) <= d

_is_lower_aligned_with(self, other, d) == Den * Abs(other.y0 - self.y0) <= d
_is_upper_aligned_with(self, other, d) == Den * Abs(other.y1 - self.y1) <= d
_is_centrally_aligned_with_v(self, other, d) ==
    Den * Abs((other.y0 + other.y1) - (self.y0 + self.y1)) <= 2 * d
_is_same_width_as(self, other, d) == Den * Abs(width(other) - width(self)) <= d

LTTextLineHorizontal_find_neighbors(self, plane, ratio) ==
    LET d == ratio * height(self)
        objs == Plane_find(plane, [x0 |-> Den * self.x0, y0 |-> Den * self.y0 - d,
                                   x1 |-> Den * self.x1, y1 |-> Den * self.y1 + d])
    IN  SelectSeq(objs, LAMBDA obj :
            /\ obj.cls = "LTTextLineHorizontal"
            /\ _is_same_height_as(self, obj, d)
            /\ \/ _is_left_aligned_with(self, obj, d)
               \/ _is_right_aligned_with(self, obj, d)
               \/ _is_centrally_aligned_with_h(self, obj, d))

LTTextLineVertical_find_neighbors(self, plane, ratio) ==
    LET d == ratio * width(self)
        objs == Plane_find(plane, [x0 |-> Den * self.x0 - d, y0 |-> Den * self.y0,
                                   x1 |-> Den * self.x1 + d, y1 |-> Den * self.y1])
    IN  SelectSeq(objs, LAMBDA obj :
            /\ obj.cls = "LTTextLineVertical"
            /\ _is_same_width_as(self, obj, d)
            /\ \/ _is_lower_aligned_with(self, obj, d)
               \/ _is_upper_aligned_with(self, obj, d)
               \/ _is_centrally_aligned_with_v(self, obj, d))

find_neighbors(self, plane, ratio) ==
    IF self.cls = "LTTextLineHorizontal"
    THEN LTTextLineHorizontal_find_neighbors(self, plane, ratio)
    ELSE LTTextLineVertical_find_neighbors(self, plane, ratio)

-----------------------------------------------------------------------------
(* LTLayoutContainer.group_textlines.  "boxes" maps the identity of a line   *)
(* to the identity of the box that holds it; "boxtab" keeps every box ever   *)
(* constructed, the k-th one having identity k; "near" records, for the     *)
(* k-th line, the identities of the lines its find_neighbors returned.      *)

\* uniq: the first occurrence of every object, in order
RECURSIVE uniq_from(_, _)
uniq_from(objs, done) ==
    IF objs = <<>> THEN <<>>
    ELSE IF Head(objs).id \in done THEN uniq_from(Tail(objs), done)
    ELSE <<Head(objs)>> \o uniq_from(Tail(objs), done \cup {Head(objs).id})

uniq(objs) == uniq_from(objs, {})

LTTextBoxHorizontal(id) == NewContainer("LTTextBoxHorizontal", id, 0, 0)
LTTextBoxVertical(id) == NewContainer("LTTextBoxVertical", id, 0, 0)

\* dict.pop(key)
DictPop(dict, key) == [k \in (DOMAIN dict) \ {key} |-> dict[k]]
\* dict[key] = value
DictSet(dict, key, value) ==
    [k \in (DOMAIN dict) \cup {key} |-> IF k = key THEN value ELSE dict[k]]

group_textlines_start(bbox, lines) ==
    [cls |-> "group_textlines", lines |-> lines,
     plane |-> Plane_extend(Plane(bbox, GridSize), lines),
     boxes |-> <<>>, boxtab |-> <<>>, pos |-> 0,
     done |-> {}, out |-> <<>>, near |-> <<>>, pc |-> "group"]

\* the loop over the neighbours with every earlier box left where it is
RECURSIVE members_of_NoAbsorb(_, _, _)
members_of_NoAbsorb(neighbors, st, members) ==
    IF neighbors = <<>> THEN [st |-> st, members |-> members]
    ELSE members_of_NoAbsorb(Tail(neighbors), st, Append(members, Head(neighbors)))

\* the loop over the neighbours: every neighbour joins the members, and so
\* do the lines of the box a neighbour is in, which leaves the dictionary
RECURSIVE members_of(_, _, _)
members_of(neighbors, st, members) ==
    IF neighbors = <<>> THEN [st |-> st, members |-> members]
    ELSE LET obj1 == Head(neighbors)
         IN  IF obj1.id \in DOMAIN st.boxes
             THEN members_of(Tail(neighbors),
                             [st EXCEPT !.boxes = DictPop(@, obj1.id)],
                             Append(members, obj1)
                                 \o st.boxtab[st.boxes[obj1.id]].objs)
             ELSE members_of(Tail(neighbors), st, Append(members, obj1))

\* the loop that fills the box with boxes.setdefault(obj, box) for
\* boxes[obj] = box
RECURSIVE fill_box_SetDefault(_, _, _)
fill_box_SetDefault(objs, box, boxes) ==
    IF objs = <<>> THEN [box |-> box, boxes |-> boxes]
    ELSE fill_box_SetDefault(Tail(objs), add(box, Head(objs)),
                             IF Head(objs).id \in DOMAIN boxes THEN boxes
                             ELSE DictSet(boxes, Head(objs).id, box.id))

\* box.add(obj); boxes[obj] = box for every obj in objs
RECURSIVE fill_box(_, _, _)
fill_box(objs, box, boxes) ==
    IF objs = <<>> THEN [box |-> box, boxes |-> boxes]
    ELSE fill_box(Tail(objs), add(box, Head(objs)),
                  DictSet(boxes, Head(objs).id, box.id))

\* one iteration of the first loop
group_textlines_body(st, line, p) ==
    LET neighbors == find_neighbors(line, st.plane, p.line_margin)
        m == members_of(neighbors, st, <<line>>)
        id == Len(st.boxtab) + 1
        box == IF line.cls = "LTTextLineHorizontal"
               THEN LTTextBoxHorizontal(id) ELSE LTTextBoxVertical(id)
        f == fill_box(uniq(m.members), box, m.st.boxes)
    IN  [m.st EXCEPT !.boxes = f.boxes, !.boxtab = Append(@, f.box),
                     !.near = Append(@, { neighbors[i].id : i \in DOMAIN neighbors }),
                     !.pos = @ + 1,
                     !.pc = IF st.pos + 1 = Len(st.lines) THEN "yield" ELSE "group"]

\* one iteration of the second loop
group_textlines_yield(st, line) ==
    LET next == [st EXCEPT !.pos = @ + 1,
                           !.pc = IF st.pos + 1 = 2 * Len(st.lines)
                                  THEN "done" ELSE "yield"]
    IN  IF line.id \notin DOMAIN st.boxes THEN next
        ELSE LET box == st.boxtab[st.boxes[line.id]]
             IN  IF box.id \in st.done THEN next
                 ELSE IF ~ LTComponent_is_empty(box)
                 THEN [next EXCEPT !.done = @ \cup {box.id},
                                   !.out = Append(@, box)]
                 ELSE [next EXCEPT !.done = @ \cup {box.id}]

RECURSIVE group_textlines_run(_, _)
group_textlines_run(st, p) ==
    IF st.pc = "done" THEN st
    ELSE IF st.pc = "group"
    THEN group_textlines_run(group_textlines_body(st, st.lines[st.pos + 1], p), p)
    ELSE group_textlines_run(
             group_textlines_yield(st, st.lines[st.pos + 1 - Len(st.lines)]), p)

\* list(self.group_textlines(laparams, lines))
group_textlines(bbox, p, lines) ==
    IF lines = <<>> THEN <<>>
    ELSE group_textlines_run(group_textlines_start(bbox, lines), p).out

-----------------------------------------------------------------------------
(* LTLayoutContainer.group_textboxes.  "objs" keeps every box and group of   *)
(* the run, the k-th one having identity k (the boxes first, in their list  *)
(* order, then the groups as they are constructed).  A queue entry is the   *)
(* tuple (skip_isany, d, id(obj1), id(obj2), obj1, obj2) of the source: id1  *)
(* and id2 name its objects.  The values id() returns are addresses, of     *)
(* which the program fixes nothing but that they differ: "idlt" is the set  *)
(* of pairs <<i, j>> for which the run has so far relied on                 *)
(* id(object i) < id(object j).  "log" is a history of the merges made.     *)
(* "dists" is the set of the tuples in the heap and "ndists" is len(dists), *)
(* the number of tuples pushed and not yet popped.                          *)

\* dist(obj1, obj2)
dist(obj1, obj2) ==
    LET x0 == Min2(obj1.x0, obj2.x0)
        y0 == Min2(obj1.y0, obj2.y0)
        x1 == Max2(obj1.x1, obj2.x1)
        y1 == Max2(obj1.y1, obj2.y1)
    IN  (x1 - x0) * (y1 - y0) - width(obj1) * height(obj1)
                              - width(obj2) * height(obj2)

\* isany with no veto at all
isany_Nothing(plane, obj1, obj2) == {}

\* isany(obj1, obj2): the identities of the other objects the plane finds in
\* the bounding rectangle of the pair
isany(plane, obj1, obj2) ==
    \* the rectangle and the list found are bound as values, so that they are
    \* computed once
    UNION { {found[i].id : i \in 1..Len(found)} :
            found \in { Plane_find(plane, r) :
                        r \in {[x0 |-> Den * Min2(obj1.x0, obj2.x0),
                                y0 |-> Den * Min2(obj1.y0, obj2.y0),
                                x1 |-> Den * Max2(obj1.x1, obj2.x1),
                                y1 |-> Den * Max2(obj1.y1, obj2.y1)]} } }
        \ {obj1.id, obj2.id}

\* LTTextGroup.__init__: self.extend(objs)
RECURSIVE LTContainer_extend(_, _)
LTContainer_extend(self, objs) ==
    IF objs = <<>> THEN self
    ELSE LTContainer_extend(add(self, Head(objs)), Tail(objs))

LTTextGroup(cls, id, objs) == LTContainer_extend(NewContainer(cls, id, 0, 0), objs)

\* a queue tuple that names its first object twice
Entry_SameId(skip, d, id1, id2) == [skip |-> skip, d |-> d, id1 |-> id1, id2 |-> id1]

Entry(skip, d, id1, id2) == [skip |-> skip, d |-> d, id1 |-> id1, id2 |-> id2]

\* the code before the loop: the distances of all pairs, heapify, the plane
group_textboxes_start(bbox, boxes) ==
    [cls |-> "group_textboxes", boxes |-> boxes, objs |-> boxes,
     plane |-> Plane_extend(Plane(bbox, GridSize), boxes),
     dists |-> { Entry(FALSE, dist(boxes[q[1]], boxes[q[2]]),
                       boxes[q[1]].id, boxes[q[2]].id) :
                 q \in { r \in (1..Len(boxes)) \X (1..Len(boxes)) : r[1] < r[2] } },
     ndists |-> (Len(boxes) * (Len(boxes) - 1)) \div 2,
     done |-> {}, idlt |-> {}, log |-> <<>>, result |-> <<>>, pc |-> "loop"]

\* the leading part of the tuple order with the veto flag left out
EntryKey_NoFlag(e) == <<FALSE, e.d>>

\* the part of a queue tuple that is compared before the identities
EntryKey(e) == <<e.skip, e.d>>

KeyLess(k, l) == (~k[1] /\ l[1]) \/ (k[1] = l[1] /\ k[2] < l[2])

\* the entries that are smallest up to the identities
heap_min(dists) ==
    { e \in dists : \A f \in dists : ~ KeyLess(EntryKey(f), EntryKey(e)) }

\* what e < f says about the identities when the leading parts are equal:
\* (id1, id2) of e is below (id1, id2) of f
IdFact(e, f) == IF e.id1 = f.id1 THEN <<e.id2, f.id2>> ELSE <<e.id1, f.id1>>

RECURSIVE TransitiveClosure(_)
TransitiveClosure(R) ==
    LET T == R \cup { <<q[1][1], q[2][2]>> :
                        q \in { r \in R \X R : r[1][2] = r[2][1] } }
    IN  IF T = R THEN R ELSE TransitiveClosure(T)

\* the order of identities a run relies on once heappop has returned e
idlt_after(st, e) ==
    TransitiveClosure(st.idlt \cup { IdFact(e, f) : f \in heap_min(st.dists) \ {e} })

\* heappop can return e: e is smallest up to the identities, and some
\* assignment of distinct identities agrees with all the run relied on
heappop_can(st, e) ==
    /\ e \in heap_min(st.dists)
    /\ \A q \in idlt_after(st, e) : q[1] # q[2]

\* heappop when identities grow in the order of construction
heappop_created(st) ==
    CHOOSE e \in heap_min(st.dists) :
        \A f \in heap_min(st.dists) :
            e.id1 < f.id1 \/ (e.id1 = f.id1 /\ e.id2 <= f.id2)

\* the other live objects whose bbox overlaps the bounding rectangle of the
\* pair (for the history only)
between(st, obj1, obj2) ==
    { o.id : o \in { p \in SeqToSet(Plane_iter(st.plane)) :
        /\ p.id \notin {obj1.id, obj2.id}
        /\ ~ \/ p.x1 <= Min2(obj1.x0, obj2.x0) \/ Max2(obj1.x1, obj2.x1) <= p.x0
             \/ p.y1 <= Min2(obj1.y0, obj2.y0) \/ Max2(obj1.y1, obj2.y1) <= p.y0 } }

\* the vetoed pair goes back with the flag still off
repush_Unflagged(e) == Entry(FALSE, e.d, e.id1, e.id2)

\* heappush(dists, (True, d, id1, id2, obj1, obj2)) of a vetoed pair
repush(e) == Entry(TRUE, e.d, e.id1, e.id2)

\* the group that merges obj1 and obj2, with identity id
merged(id, obj1, obj2) ==
    LET tbrl == {"LTTextBoxVertical", "LTTextGroupTBRL"}
    IN  IF obj1.cls \in tbrl \/ obj2.cls \in tbrl
        THEN LTTextGroup("LTTextGroupTBRL", id, <<obj1, obj2>>)
        ELSE LTTextGroup("LTTextGroupLRTB", id, <<obj1, obj2>>)

\* one iteration of the while loop, heappop having returned e; the new group
\* and the plane without the pair are bound as values, so that they are
\* computed once
group_textboxes_body(st, e) ==
    LET rest == [st EXCEPT !.dists = @ \ {e}, !.ndists = @ - 1,
                           !.idlt = idlt_after(st, e)]
        obj1 == st.objs[e.id1]
        obj2 == st.objs[e.id2]
    IN  IF e.id1 \in st.done \/ e.id2 \in st.done THEN rest
        ELSE IF ~ e.skip /\ isany(st.plane, obj1, obj2) # {}
        THEN [rest EXCEPT !.dists = @ \cup {repush(e)}, !.ndists = @ + 1]
        ELSE CHOOSE next \in
               { LET others == Plane_iter(plane)
                 IN  [rest EXCEPT
                        !.dists = @ \cup { Entry(FALSE, dist(group, others[i]),
                                                 group.id, others[i].id) :
                                           i \in 1..Len(others) },
                        !.ndists = @ + Len(others),
                        !.plane = Plane_add(plane, group),
                        !.done = @ \cup {e.id1, e.id2},
                        !.objs = Append(@, group),
                        !.log = Append(@, [id1 |-> e.id1, id2 |-> e.id2,
                                           skip |-> e.skip,
                                           unvetoed |-> {f \in rest.dists : ~ f.skip},
                                           found |-> isany(st.plane, obj1, obj2),
                                           between |-> between(st, obj1, obj2)])] :
                 group \in {merged(Len(st.objs) + 1, obj1, obj2)},
                 plane \in { Plane_remove(without, obj2) :
                                without \in {Plane_remove(st.plane, obj1)} } } : TRUE

\* the end of the loop: return list(plane)
group_textboxes_return(st) ==
    [st EXCEPT !.pc = "done", !.result = Plane_iter(st.plane)]

\* the whole call when identities grow in the order of construction
RECURSIVE group_textboxes_run(_)
group_textboxes_run(st) ==
    IF st.dists = {} THEN group_textboxes_return(st)
    ELSE group_textboxes_run(group_textboxes_body(st, heappop_created(st)))

group_textboxes(bbox, boxes) ==
    group_textboxes_run(group_textboxes_start(bbox, boxes))

-----------------------------------------------------------------------------
(* analyze: the sorts, IndexAssigner and LTLayoutContainer.analyze *)

\* the order of Python's tuples of numbers
RECURSIVE LexLess(_, _)
LexLess(k, l) ==
    IF k = <<>> \/ l = <<>> THEN k = <<>> /\ l # <<>>
    ELSE IF Head(k) # Head(l) THEN Head(k) < Head(l)
    ELSE LexLess(Tail(k), Tail(l))

\* list.sort on [key, obj] pairs: stable, keys ascending
RECURSIVE SortKeyed(_)
SortKeyed(s) ==
    IF s = <<>> THEN <<>>
    ELSE LET r == SortKeyed(SubSeq(s, 1, Len(s) - 1))
             x == s[Len(s)]
             n == Cardinality({i \in 1..Len(r) : ~ LexLess(x.key, r[i].key)})
         IN  SubSeq(r, 1, n) \o <<x>> \o SubSeq(r, n + 1, Len(r))

\* objs.sort(key=key)
SortBy(objs, key(_)) ==
    LET r == SortKeyed([i \in 1..Len(objs) |-> [key |-> key(objs[i]), obj |-> objs[i]]])
    IN  [i \in 1..Len(r) |-> r[i].obj]

\* the keys of the sorts, scaled by Den where boxes_flow enters
LTTextBoxHorizontal_key(obj) == <<-obj.y1>>
LTTextBoxVertical_key(obj) == <<-obj.x1>>
LTTextGroupLRTB_key(obj, p) ==
    <<(Den - p.boxes_flow.v) * obj.x0 - (Den + p.boxes_flow.v) * (obj.y0 + obj.y1)>>
LTTextGroupTBRL_key(obj, p) ==
    <<-((Den + p.boxes_flow.v) * (obj.x0 + obj.x1)) - (Den - p.boxes_flow.v) * obj.y1>>

\* getkey with the bottom edge ascending
getkey_BottomUp(box) ==
    IF box.cls = "LTTextBoxVertical" THEN <<0, -box.x1, -box.y0>>
    ELSE <<1, box.y0, box.x0>>

\* getkey of analyze
getkey(box) ==
    IF box.cls = "LTTextBoxVertical" THEN <<0, -box.x1, -box.y0>>
    ELSE <<1, -box.y0, box.x0>>

\* obj.analyze(laparams) for a line, a box or a group: the children first,
\* then the newline of a line or the sort of a box or group
RECURSIVE analyze_obj(_, _)
analyze_obj(obj, p) ==
    LET kids == [obj EXCEPT !.objs = [i \in 1..Len(obj.objs) |->
                                        analyze_obj(obj.objs[i], p)]]
    IN  CASE obj.cls \in {"LTTextLineHorizontal", "LTTextLineVertical"} ->
                LTTextLine_analyze(obj)
          [] obj.cls = "LTTextBoxHorizontal" ->
                [kids EXCEPT !.objs = SortBy(@, LTTextBoxHorizontal_key)]
          [] obj.cls = "LTTextBoxVertical" ->
                [kids EXCEPT !.objs = SortBy(@, LTTextBoxVertical_key)]
          [] obj.cls = "LTTextGroupLRTB" ->
                [kids EXCEPT !.objs = SortBy(@, LAMBDA o : LTTextGroupLRTB_key(o, p))]
          [] obj.cls = "LTTextGroupTBRL" ->
                [kids EXCEPT !.objs = SortBy(@, LAMBDA o : LTTextGroupTBRL_key(o, p))]
          [] OTHER -> obj

IsTextBox(obj) == obj.cls \in {"LTTextBoxHorizontal", "LTTextBoxVertical"}
IsTextGroup(obj) == obj.cls \in {"LTTextGroupLRTB", "LTTextGroupTBRL"}

RECURSIVE IndexAssigner_run(_, _)

\* runs over the children of a group, one after the other
RECURSIVE IndexAssigner_each(_, _, _)
IndexAssigner_each(objs, index, acc) ==
    IF objs = <<>> THEN [objs |-> acc, index |-> index]
    ELSE LET r == IndexAssigner_run(Head(objs), index)
         IN  IndexAssigner_each(Tail(objs), r.index, Append(acc, r.obj))

\* IndexAssigner.run with a counter that stands still
IndexAssigner_run_NoCount(obj, index) ==
    IF IsTextBox(obj) THEN [obj |-> [obj EXCEPT !.index = index], index |-> index]
    ELSE IF IsTextGroup(obj)
    THEN LET r == IndexAssigner_each(obj.objs, index, <<>>)
         IN  [obj |-> [obj EXCEPT !.objs = r.objs], index |-> r.index]
    ELSE [obj |-> obj, index |-> index]

\* IndexAssigner.run(obj) with the counter at index: the object with the
\* indices set, and the counter afterwards
IndexAssigner_run(obj, index) ==
    IF IsTextBox(obj) THEN [obj |-> [obj EXCEPT !.index = index], index |-> index + 1]
    ELSE IF IsTextGroup(obj)
    THEN LET r == IndexAssigner_each(obj.objs, index, <<>>)
         IN  [obj |-> [obj EXCEPT !.objs = r.objs], index |-> r.index]
    ELSE [obj |-> obj, index |-> index]

\* the loop of analyze over self.groups: group.analyze, assigner.run(group)
RECURSIVE analyze_groups(_, _, _, _)
analyze_groups(groups, p, index, acc) ==
    IF groups = <<>> THEN acc
    ELSE LET r == IndexAssigner_run(analyze_obj(Head(groups), p), index)
         IN  analyze_groups(Tail(groups), p, r.index, Append(acc, r.obj))

\* the boxes below an object of the group tree, as objects
RECURSIVE BoxesBelow(_)
BoxesBelow(obj) ==
    IF IsTextBox(obj) THEN {obj}
    ELSE IF IsTextGroup(obj)
    THEN UNION { BoxesBelow(obj.objs[i]) : i \in 1..Len(obj.objs) }
    ELSE {}

\* a box of the list is the object of that identity in the groups, if any
Aliased(box, groups) ==
    LET found == { b \in UNION { BoxesBelow(groups[i]) : i \in 1..Len(groups) } :
                     b.id = box.id }
    IN  IF found = {} THEN box ELSE CHOOSE b \in found : TRUE

\* get_text().isspace() of a line
isspace(line) ==
    /\ line.objs # <<>>
    /\ \A i \in 1..Len(line.objs) : line.objs[i].text \in {" ", "\n"}

\* LTTextLine.is_empty
LTTextLine_is_empty(line) == LTComponent_is_empty(line) \/ isspace(line)

\* fsplit
fsplit(pred(_), objs) ==
    [t |-> SelectSeq(objs, pred), f |-> SelectSeq(objs, LAMBDA o : ~ pred(o))]

\* the i-th object of a list gets identity i
Renumber(objs) == [i \in 1..Len(objs) |-> [objs[i] EXCEPT !.id = i]]

\* self.groups: None, or a list of groups
NoGroups == [is_none |-> TRUE, list |-> <<>>]
GroupList(groups) == [is_none |-> FALSE, list |-> groups]

\* LTLayoutContainer.__init__ (groups is None until analyze sets it) and the
\* add() calls that fill it; "given" keeps the children as they are when
\* analyze is called (for the history)
LTLayoutContainer(bbox, objs) ==
    [cls |-> "LTLayoutContainer", bbox |-> bbox, objs |-> objs, groups |-> NoGroups,
     textboxes |-> <<>>, empties |-> <<>>, otherobjs |-> <<>>, given |-> objs,
     pc |-> "start"]

\* LTRect: a component whose analyze is that of LTItem
LTRect(id, x0, y0, x1, y1) ==
    [cls |-> "LTRect", id |-> id, x0 |-> x0, y0 |-> y0, x1 |-> x1, y1 |-> y1]

\* LTFigure.__init__ and the add() calls that fill it
LTFigure(id, bbox, objs) ==
    [cls |-> "LTFigure", id |-> id, bbox |-> bbox, objs |-> objs, groups |-> NoGroups,
     textboxes |-> <<>>, empties |-> <<>>, otherobjs |-> <<>>, given |-> objs,
     pc |-> "start"]

RECURSIVE analyze_start(_, _)
RECURSIVE LTLayoutContainer_analyze(_, _)

\* LTFigure.analyze with all_texts set whatever the configuration says
LTFigure_analyze_Always(self, p) == LTLayoutContainer_analyze(self, p)

\* LTFigure.analyze
LTFigure_analyze(self, p) ==
    IF ~ p.all_texts THEN self ELSE LTLayoutContainer_analyze(self, p)

\* obj.analyze(laparams) that hands back another object
analyze_other_Copy(obj, p) == [obj EXCEPT !.id = 0]

\* obj.analyze(laparams) for a child that is no character: a figure, a
\* line, box or group, or an item whose analyze does nothing
analyze_other(obj, p) ==
    IF obj.cls = "LTFigure" THEN LTFigure_analyze(obj, p) ELSE analyze_obj(obj, p)

\* analyze up to the test of boxes_flow: the locals textboxes, otherobjs and
\* empties (the lines and the boxes named by their place in their list)
analyze_start(self, p) ==
    LET s1 == fsplit(LAMBDA o : o.cls = "LTChar", self.objs)
        otherobjs == [i \in 1..Len(s1.f) |-> analyze_other(s1.f[i], p)]
        objs == [i \in 1..Len(self.objs) |->
                    IF self.objs[i].cls = "LTChar" THEN self.objs[i]
                    ELSE analyze_other(self.objs[i], p)]
        textlines == Renumber(group_objects(p, s1.t))
        s2 == fsplit(LTTextLine_is_empty, textlines)
        empties == [i \in 1..Len(s2.t) |-> analyze_obj(s2.t[i], p)]
        textboxes == Renumber(group_textlines(self.bbox, p, s2.f))
    IN  IF s1.t = <<>> THEN [self EXCEPT !.objs = objs, !.pc = "done"]
        ELSE [self EXCEPT !.objs = objs, !.textboxes = textboxes,
                          !.otherobjs = otherobjs, !.empties = empties,
                          !.pc = "boxes"]

\* the branch boxes_flow is None without the sort
analyze_noflow_Unsorted(self, p) ==
    LET textboxes == [i \in 1..Len(self.textboxes) |->
                         analyze_obj(self.textboxes[i], p)]
    IN  [self EXCEPT !.textboxes = textboxes,
                     !.objs = textboxes \o self.otherobjs \o self.empties,
                     !.pc = "done"]

\* the branch boxes_flow is None: analyze the boxes, sort them by getkey
analyze_noflow(self, p) ==
    LET textboxes == [i \in 1..Len(self.textboxes) |->
                         analyze_obj(self.textboxes[i], p)]
        sorted == SortBy(textboxes, getkey)
    IN  [self EXCEPT !.textboxes = sorted,
                     !.objs = sorted \o self.otherobjs \o self.empties,
                     !.pc = "done"]

\* the branch boxes_flow is a number with the other children listed first
analyze_flow_OthersFirst(self, p, groups) ==
    LET gs == analyze_groups(groups, p, 0, <<>>)
        textboxes == [i \in 1..Len(self.textboxes) |->
                         Aliased(self.textboxes[i], gs)]
        sorted == SortBy(textboxes, LAMBDA box : <<box.index>>)
    IN  [self EXCEPT !.groups = GroupList(gs), !.textboxes = sorted,
                     !.objs = self.otherobjs \o sorted \o self.empties,
                     !.pc = "done"]

\* the branch boxes_flow is a number, after group_textboxes has returned
\* groups: analyze and index the groups, sort the boxes by index
analyze_flow(self, p, groups) ==
    LET gs == analyze_groups(groups, p, 0, <<>>)
        textboxes == [i \in 1..Len(self.textboxes) |->
                         Aliased(self.textboxes[i], gs)]
        sorted == SortBy(textboxes, LAMBDA box : <<box.index>>)
    IN  [self EXCEPT !.groups = GroupList(gs), !.textboxes = sorted,
                     !.objs = sorted \o self.otherobjs \o self.empties,
                     !.pc = "done"]

\* LTLayoutContainer.analyze as one call, for a figure inside a container
\* (identities in group_textboxes grow in the order of construction)
LTLayoutContainer_analyze(self, p) ==
    LET s == analyze_start(self, p)
    IN  IF s.pc = "done" THEN s
        ELSE IF p.boxes_flow.is_none THEN analyze_noflow(s, p)
        ELSE analyze_flow(s, p, group_textboxes(s.bbox, s.textboxes).result)

\* a box of a group tree is the object of that identity among the children
RECURSIVE Realiased(_, _)
Realiased(obj, objs) ==
    IF IsTextBox(obj)
    THEN LET found == { i \in 1..Len(objs) : IsTextBox(objs[i]) /\ objs[i].id = obj.id }
         IN  IF found = {} THEN obj ELSE objs[CHOOSE i \in found : TRUE]
    ELSE [obj EXCEPT !.objs = [i \in 1..Len(obj.objs) |-> Realiased(obj.objs[i], objs)]]

\* the groups of an analyzed container name the boxes among its children
Regrouped(r) ==
    [r EXCEPT !.pc = "again",
              !.groups = IF @.is_none THEN @
                         ELSE GroupList([i \in 1..Len(@.list) |->
                                           Realiased(@.list[i], r.objs)])]

\* a second call of analyze that finds nothing to do
analyze_again_Nothing(self, p) == [self EXCEPT !.pc = "again"]

\* analyze called on a container that analyze has returned from: the call
\* as a whole
analyze_again(self, p) ==
    Regrouped(IF self.cls = "LTFigure" THEN LTFigure_analyze(self, p)
              ELSE LTLayoutContainer_analyze(self, p))

-----------------------------------------------------------------------------
(* process_object and extract_page.  A content object of the page is a      *)
(* record with a "tag": a TextObject (its glyphs), a PathObject (its paths,  *)
(* each a list of segments with an operator and a last point), an           *)
(* XObjectObject (a bbox and child content objects), an ImageObject, or     *)
(* another ContentObject.  Matrices are the identity.  The objects made in  *)
(* a call get the identities n + 1, n + 2, ... in the order they are made.  *)

\* get_bound(pts) of playa.utils
get_bound(pts) ==
    LET xs == { pts[i][1] : i \in DOMAIN pts }
        ys == { pts[i][2] : i \in DOMAIN pts }
    IN  [x0 |-> CHOOSE m \in xs : \A v \in xs : m <= v,
         y0 |-> CHOOSE m \in ys : \A v \in ys : m <= v,
         x1 |-> CHOOSE m \in xs : \A v \in xs : m >= v,
         y1 |-> CHOOSE m \in ys : \A v \in ys : m >= v]

\* LTCurve.__init__: the bbox is the bound of the points
LTCurve(id, pts) ==
    LET b == get_bound(pts)
    IN  [cls |-> "LTCurve", id |-> id, x0 |-> b.x0, y0 |-> b.y0, x1 |-> b.x1,
         y1 |-> b.y1]

\* LTLine.__init__
LTLine(id, p0, p1) == [LTCurve(id, <<p0, p1>>) EXCEPT !.cls = "LTLine"]

\* LTImage.__init__
LTImage(id, bbox) ==
    [cls |-> "LTImage", id |-> id, x0 |-> bbox.x0, y0 |-> bbox.y0, x1 |-> bbox.x1,
     y1 |-> bbox.y1]

\* LTPage.__init__
LTPage(pageid, bbox) ==
    [cls |-> "LTPage", pageid |-> pageid, bbox |-> bbox, objs |-> <<>>,
     groups |-> NoGroups, textboxes |-> <<>>, empties |-> <<>>, otherobjs |-> <<>>,
     given |-> <<>>, pc |-> "start"]

\* the generator object a call of process_object returns before anything
\* has asked it for an item
Generator(id, obj) == [cls |-> "generator", id |-> id, obj |-> obj]

\* pts of the PathObject handler: the last point of every segment, the
\* first point again for an "h"
RECURSIVE path_pts(_, _)
path_pts(segs, pts) ==
    IF segs = <<>> THEN pts
    ELSE path_pts(Tail(segs),
                  Append(pts, IF Head(segs).op = "h" THEN pts[1] ELSE Head(segs).pt))

\* the body of "for path in obj": the item made from one path
process_path(path, id) ==
    LET ops == [i \in DOMAIN path |-> path[i].op]
        all == path_pts(path, <<>>)
        n == Len(ops)
        redundant == /\ n > 3 /\ ops[n - 1] = "l" /\ ops[n] = "h"
                     /\ all[Len(all) - 1] = all[1]
        shape == IF redundant THEN SubSeq(ops, 1, n - 2) \o <<"h">> ELSE ops
        pts == IF redundant THEN SubSeq(all, 1, Len(all) - 1) ELSE all
    IN  IF shape \in {<<"m", "l", "h">>, <<"m", "l">>}
        THEN LTLine(id, pts[1], pts[2])
        ELSE IF shape \in {<<"m", "l", "l", "l", "h">>, <<"m", "l", "l", "l", "l">>}
        THEN LET x0 == pts[1][1]  y0 == pts[1][2]
                 x1 == pts[2][1]  y1 == pts[2][2]
                 x2 == pts[3][1]  y2 == pts[3][2]
                 x3 == pts[4][1]  y3 == pts[4][2]
                 is_closed_loop == pts[1] = pts[5]
                 has_square_coordinates ==
                     \/ (x0 = x1 /\ y1 = y2 /\ x2 = x3 /\ y3 = y0)
                     \/ (y0 = y1 /\ x1 = x2 /\ y2 = y3 /\ x3 = x0)
                 b == get_bound(<<pts[1], <<pts[3][1], pts[1][2]>>, pts[3],
                                  <<pts[1][1], pts[3][2]>>>>)
             IN  IF is_closed_loop /\ has_square_coordinates
                 THEN LTRect(id, b.x0, b.y0, b.x1, b.y1)
                 ELSE LTCurve(id, pts)
        ELSE LTCurve(id, pts)

\* process_object(obj) when all its items are taken, n objects having been
\* made before: the items it yields and the number of objects it makes
process_object(obj, n) ==
    CASE obj.tag = "TextObject" ->
            [items |-> [i \in 1..Len(obj.glyphs) |->
                           LTChar(n + i, obj.glyphs[i].x0, obj.glyphs[i].y0,
                                  obj.glyphs[i].x1, obj.glyphs[i].y1,
                                  obj.glyphs[i].text)],
             made |-> Len(obj.glyphs)]
      [] obj.tag = "PathObject" ->
            [items |-> [i \in 1..Len(obj.paths) |-> process_path(obj.paths[i], n + i)],
             made |-> Len(obj.paths)]
      [] obj.tag = "XObjectObject" ->
            [items |-> <<LTFigure(n + 1, obj.bbox,
                                  [i \in 1..Len(obj.children) |->
                                      Generator(n + 1 + i, obj.children[i])])>>,
             made |-> 1 + Len(obj.children)]
      [] obj.tag = "ImageObject" ->
            [items |-> <<LTFigure(n + 1, obj.bbox, <<LTImage(n + 2, obj.bbox)>>)>>,
             made |-> 2]
      [] OTHER -> [items |-> <<>>, made |-> 0]

\* obj.analyze(laparams) raises AttributeError: obj is not a layout item, or
\* the analyze of a container reaches such a child
RECURSIVE analyze_raises(_, _)
analyze_raises(obj, p) ==
    CASE obj.cls = "generator" -> TRUE
      [] obj.cls = "LTFigure" /\ ~ p.all_texts -> FALSE
      [] obj.cls \in {"LTFigure", "LTPage", "LTLayoutContainer"} ->
            \E i \in 1..Len(obj.objs) :
                obj.objs[i].cls # "LTChar" /\ analyze_raises(obj.objs[i], p)
      [] OTHER -> FALSE

\* a container after an analyze call that raised: the loop over otherobjs
\* has analyzed the children before the one that raised
RECURSIVE analyze_raised(_, _)
analyze_raised(self, p) ==
    LET k == CHOOSE i \in 1..Len(self.objs) :
                /\ self.objs[i].cls # "LTChar" /\ analyze_raises(self.objs[i], p)
                /\ \A j \in 1..(i - 1) :
                       self.objs[j].cls = "LTChar" \/ ~ analyze_raises(self.objs[j], p)
    IN  [self EXCEPT !.objs =
            [i \in 1..Len(self.objs) |->
                IF self.objs[i].cls = "LTChar" \/ i > k THEN self.objs[i]
                ELSE IF i < k THEN analyze_other(self.objs[i], p)
                ELSE IF self.objs[i].cls = "generator" THEN self.objs[i]
                ELSE analyze_raised(self.objs[i], p)]]

extract_page_start(page, laparams) ==
    [cls |-> "extract_page", page |-> page, laparams |-> laparams, pos |-> 0,
     ltpage |-> LTPage(1, [x0 |-> 0, y0 |-> 0, x1 |-> (MaxX - 1) * Unit,
                           y1 |-> MaxY * Unit]),
     made |-> 0, pc |-> "loop"]

\* ltpage.add(item) for every item
RECURSIVE add_items(_, _)
add_items(ltpage, items) ==
    IF items = <<>> THEN ltpage
    ELSE add_items(LTContainer_add(ltpage, Head(items)), Tail(items))

\* one pass of "for obj in page"
extract_page_body(st, obj) ==
    LET r == process_object(obj, st.made)
    IN  [st EXCEPT !.ltpage = add_items(@, r.items), !.made = @ + r.made,
                   !.pos = @ + 1]

\* the end of extract_page with the analysis run whatever laparams is
extract_page_end_Always(st, p) ==
    LET ltpage == [st.ltpage EXCEPT !.given = st.ltpage.objs]
    IN  IF analyze_raises(ltpage, p)
        THEN [st EXCEPT !.ltpage = analyze_raised(ltpage, p), !.pc = "AttributeError"]
        ELSE [st EXCEPT !.ltpage = LTLayoutContainer_analyze(ltpage, p),
                        !.pc = "done"]

\* the end of extract_page: the analysis when laparams is given, the return
extract_page_end(st, p) ==
    LET ltpage == [st.ltpage EXCEPT !.given = st.ltpage.objs]
    IN  IF st.laparams = "None" THEN [st EXCEPT !.ltpage = ltpage, !.pc = "done"]
        ELSE IF analyze_raises(ltpage, p)
        THEN [st EXCEPT !.ltpage = analyze_raised(ltpage, p), !.pc = "AttributeError"]
        ELSE [st EXCEPT !.ltpage = LTLayoutContainer_analyze(ltpage, p),
                        !.pc = "done"]

-----------------------------------------------------------------------------
(* words of text.py.  A glyph is a record with its place in the stream as   *)
(* identity, its text (None, or a string), its origin and its displacement  *)
(* in units of 1/Den, the writing mode of its font and the space of its     *)
(* page.  The text objects of the page are taken as one stream of glyphs.   *)

NoText == [is_none |-> TRUE, s |-> ""]
Text(s) == [is_none |-> FALSE, s |-> s]

GlyphObject(id, text, x, y, dx, dy, vertical, space) ==
    [cls |-> "GlyphObject", id |-> id, text |-> text, x |-> x, y |-> y,
     dx |-> dx, dy |-> dy, vertical |-> vertical, space |-> space]

Point(x, y) == [is_none |-> FALSE, x |-> x, y |-> y]
NoPoint == [is_none |-> TRUE, x |-> 0, y |-> 0]

\* word_break that looks at the offset only
word_break_OffsetOnly(glyph, origin) ==
    LET off == IF glyph.vertical THEN glyph.y ELSE glyph.x
        poff == IF glyph.vertical THEN origin.y ELSE origin.x
    IN  2 * (off - poff) > Den

\* word_break(glyph, origin): a space, or more than 0.5 beyond the origin
word_break(glyph, origin) ==
    IF glyph.text = Text(" ") THEN TRUE
    ELSE LET off == IF glyph.vertical THEN glyph.y ELSE glyph.x
             poff == IF glyph.vertical THEN origin.y ELSE origin.x
         IN  2 * (off - poff) > Den

\* line_break(glyph, origin)
line_break(glyph, origin) ==
    LET dy == glyph.y - origin.y
        line_offset == IF glyph.vertical THEN glyph.x - origin.x
                       ELSE IF glyph.space = "screen" THEN -dy ELSE dy
    IN  line_offset < 0 \/ line_offset > 100 * Den

WordObject(glyphs, next_origin) ==
    [cls |-> "WordObject", glyphs |-> glyphs, next_origin |-> next_origin]

\* words up to the loop
words_start(stream) ==
    [cls |-> "words", stream |-> stream, pos |-> 0, glyphs |-> <<>>,
     next_origin |-> NoPoint, out |-> <<>>, pc |-> "loop"]

\* one pass of the loop over the glyphs
words_body(st, glyph) ==
    LET break == /\ ~ st.next_origin.is_none
                 /\ st.glyphs # <<>>
                 /\ (word_break(glyph, st.next_origin)
                        \/ line_break(glyph, st.next_origin))
        glyphs == IF break THEN <<>> ELSE st.glyphs
    IN  [st EXCEPT
           !.out = IF break THEN Append(@, WordObject(st.glyphs, st.next_origin))
                   ELSE @,
           !.glyphs = IF ~ glyph.text.is_none /\ glyph.text # Text(" ")
                      THEN Append(glyphs, glyph) ELSE glyphs,
           !.next_origin = Point(glyph.x + glyph.dx, glyph.y + glyph.dy),
           !.pos = @ + 1]

\* the code after the loop
words_end(st) ==
    [st EXCEPT
       !.out = IF ~ st.next_origin.is_none /\ st.glyphs # <<>>
               THEN Append(@, WordObject(st.glyphs, st.next_origin)) ELSE @,
       !.pc = "done"]

-----------------------------------------------------------------------------
(* Inputs: characters on the lattice *)

\* <<x, y, w, h>> in cells: the lower left corner and the size of a character
\* (one side of the character is a single cell)
CharShapes ==
    { g \in (0..(MaxX - 1)) \X (0..(MaxY - 1)) \X (1..MaxSize) \X (1..MaxSize) :
        g[3] = 1 \/ g[4] = 1 }

\* the characters an object with identity id can be
CharSet(id) ==
    { LTChar(id, g[1] * Unit, g[2] * Unit, (g[1] + g[3]) * Unit,
             (g[2] + g[4]) * Unit, "a") : g \in CharShapes }

\* the word_margin values tried: 0, the default 0.1, and 0.5
WordMargins == {0, 1, 5}

Idle == [cls |-> "Idle"]

-----------------------------------------------------------------------------
(* SpecContainer: one expandable container and the calls made on it *)

\* a line, a box and a group holding the single character c
LineOf(c) == add(LTTextLineHorizontal(c.id, 0), c)
BoxOf(c) == add(NewContainer("LTTextBoxHorizontal", c.id, 0, 0), LineOf(c))

\* what may be added to a container of class cls as its n-th child
ChildSet(cls, n) ==
    CASE cls \in {"LTTextLineHorizontal", "LTTextLineVertical"} -> CharSet(n)
      [] cls = "LTTextBoxHorizontal" -> {LineOf(c) : c \in CharSet(n)}
      [] OTHER -> {BoxOf(c) : c \in CharSet(n)}

ContainerInit ==
    /\ la = DefaultLAParams
    /\ go = Idle /\ gl = Idle /\ gb = Idle /\ an = Idle /\ pl = Idle /\ ov = Idle
    /\ ex = Idle /\ wd = Idle
    /\ cont \in {LTTextLineHorizontal(0, wm) : wm \in WordMargins}
              \cup {LTTextLineVertical(0, wm) : wm \in WordMargins}
              \cup {NewContainer("LTTextBoxHorizontal", 0, 0, 0),
                    NewContainer("LTTextGroupLRTB", 0, 0, 0)}

\* children of the container that carry a bbox
BBoxChildren(c) == {c.objs[i] : i \in {j \in 1..Len(c.objs) : HasBBox(c.objs[j])}}

\* container.add(obj)
ContainerAdd ==
    /\ Cardinality(BBoxChildren(cont)) < MaxAdds
    /\ \E obj \in ChildSet(cont.cls, Cardinality(BBoxChildren(cont)) + 1) :
           cont' = add(cont, obj)
    /\ UNCHANGED <<la, go, gl, gb, an, pl, ov, ex, wd>>

\* line.analyze(laparams), which a caller may run at any time
ContainerAnalyze ==
    /\ cont.cls \in {"LTTextLineHorizontal", "LTTextLineVertical"}
    /\ Len(cont.objs) < 2 * MaxAdds
    /\ ~ \E i \in 1..Len(cont.objs) : cont.objs[i] = LTAnno("\n")
    /\ cont' = LTTextLine_analyze(cont)
    /\ UNCHANGED <<la, go, gl, gb, an, pl, ov, ex, wd>>

ContainerNext == ContainerAdd \/ ContainerAnalyze

SpecContainer == ContainerInit /\ [][ContainerNext]_vars

-----------------------------------------------------------------------------
(* SpecLines: one run of group_objects over a sequence of characters *)

\* the list of the characters f, the i-th with identity i
CharSeq(f) == [i \in DOMAIN f |-> [f[i] EXCEPT !.id = i]]

\* the configurations of a group_objects run: char_margin 0.5 and 2.0,
\* vertical detection off and on
LinesParams ==
    { LAParams(5, cm, 5, 1, Flow(5), dv, FALSE) :
        cm \in {5, 20}, dv \in BOOLEAN }

LinesInit ==
    /\ la \in LinesParams
    /\ cont = Idle /\ gl = Idle /\ gb = Idle /\ an = Idle /\ pl = Idle /\ ov = Idle
    /\ ex = Idle /\ wd = Idle
    /\ \E k \in 1..MaxChars : \E f \in [1..k -> CharSet(0)] :
          go = group_objects_start(CharSeq(f))

GroupObjectsNext ==
    /\ go.pc = "loop"
    /\ go.pos < Len(go.objs)
    /\ go' = group_objects_body(go, go.objs[go.pos + 1], la)
    /\ UNCHANGED <<la, cont, gl, gb, an, pl, ov, ex, wd>>

GroupObjectsEnd ==
    /\ go.pc = "loop"
    /\ go.pos = Len(go.objs)
    /\ go' = group_objects_end(go, la)
    /\ UNCHANGED <<la, cont, gl, gb, an, pl, ov, ex, wd>>

LinesNext == GroupObjectsNext \/ GroupObjectsEnd

SpecLines == LinesInit /\ [][LinesNext]_vars

-----------------------------------------------------------------------------
(* SpecVertical: one run of group_objects with detect_vertical on, over      *)
(* characters of a lattice that is taller than wide                          *)

\* cells of the lattice of SpecVertical along y
MaxStackY == 4

\* the characters of SpecVertical: two columns, one side a single cell
StackChars ==
    { LTChar(0, g[1] * Unit, g[2] * Unit, (g[1] + g[3]) * Unit,
             (g[2] + g[4]) * Unit, "a") :
        g \in { h \in (0..1) \X (0..(MaxStackY - 1)) \X (1..MaxSize) \X (1..MaxSize) :
                  h[3] = 1 \/ h[4] = 1 } }

\* line_overlap 0.3 and 0.5, char_margin 0.5 and 2.0, detect_vertical on
VerticalParams ==
    { LAParams(lo, cm, 5, 1, Flow(5), TRUE, FALSE) : lo \in {3, 5}, cm \in {5, 20} }

VerticalInit ==
    /\ la \in VerticalParams
    /\ cont = Idle /\ gl = Idle /\ gb = Idle /\ an = Idle /\ pl = Idle /\ ov = Idle
    /\ ex = Idle /\ wd = Idle
    /\ \E k \in 1..MaxChars : \E f \in [1..k -> StackChars] :
          go = group_objects_start(CharSeq(f))

SpecVertical == VerticalInit /\ [][LinesNext]_vars

-----------------------------------------------------------------------------
(* SpecBoxes: one run of group_textlines over a sequence of text lines *)

\* the bbox of the layout container: the lattice reaches one cell beyond its
\* right edge, so that a line can lie inside, across or outside the page
PageBBox == [x0 |-> 0, y0 |-> 0, x1 |-> (MaxX - 1) * Unit, y1 |-> MaxY * Unit]

\* the non-empty lines with identity id: one character each, either class
LineSet(id) ==
    { add(LTTextLineHorizontal(id, 1), c) : c \in CharSet(id) }
    \cup { add(LTTextLineVertical(id, 1), c) : c \in CharSet(id) }

\* the list of the lines f, the i-th with identity i
LineSeq(f) ==
    [i \in DOMAIN f |->
        [f[i] EXCEPT !.id = i,
                     !.objs = [j \in DOMAIN f[i].objs |-> [f[i].objs[j] EXCEPT !.id = i]]]]

\* the configurations of a group_textlines run: line_margin 0 and 0.5
BoxesParams == { LAParams(5, 20, lm, 1, Flow(5), FALSE, FALSE) : lm \in {0, 5} }

BoxesInit ==
    /\ la \in BoxesParams
    /\ cont = Idle /\ go = Idle /\ gb = Idle /\ an = Idle /\ pl = Idle /\ ov = Idle
    /\ ex = Idle /\ wd = Idle
    /\ \E k \in 1..MaxLines : \E f \in [1..k -> LineSet(0)] :
          gl = group_textlines_start(PageBBox, LineSeq(f))

GroupTextlinesBody ==
    /\ gl.pc = "group"
    /\ gl' = group_textlines_body(gl, gl.lines[gl.pos + 1], la)
    /\ UNCHANGED <<la, cont, go, gb, an, pl, ov, ex, wd>>

GroupTextlinesYield ==
    /\ gl.pc = "yield"
    /\ gl' = group_textlines_yield(gl, gl.lines[gl.pos + 1 - Len(gl.lines)])
    /\ UNCHANGED <<la, cont, go, gb, an, pl, ov, ex, wd>>

BoxesNext == GroupTextlinesBody \/ GroupTextlinesYield

SpecBoxes == BoxesInit /\ [][BoxesNext]_vars

-----------------------------------------------------------------------------
(* SpecCluster: one run of group_textboxes over a list of text boxes *)

\* the bbox of the layout container of a group_textboxes run: the lattice of
\* the boxes has one row of cells above it
ClusterBBox == [x0 |-> 0, y0 |-> 0, x1 |-> MaxX * Unit, y1 |-> MaxY * Unit]

\* <<x, y, w, h>> in cells: the boxes are the rectangles of the lattice with
\* one side a single cell
BoxShapes ==
    { g \in (0..(MaxX - 1)) \X (0..MaxY) \X (1..MaxX) \X (1..(MaxY + 1)) :
        /\ g[1] + g[3] <= MaxX /\ g[2] + g[4] <= MaxY + 1
        /\ (g[3] = 1 \/ g[4] = 1) }

\* the text box with identity id on the rectangle g: one line of one
\* character
TextBox(id, g, vertical) ==
    LET c == LTChar(id, g[1] * Unit, g[2] * Unit, (g[1] + g[3]) * Unit,
                    (g[2] + g[4]) * Unit, "a")
    IN  IF vertical
        THEN add(LTTextBoxVertical(id), add(LTTextLineVertical(id, 1), c))
        ELSE add(LTTextBoxHorizontal(id), add(LTTextLineHorizontal(id, 1), c))

\* in a group_textboxes run a box is vertical when taller than wide
TextBoxOf(id, g) == TextBox(id, g, g[4] > g[3])

ShapeLess(g, h) ==
    \E k \in 1..4 : g[k] < h[k] /\ \A j \in 1..(k - 1) : g[j] = h[j]

\* a rectangle inside the bbox of the container
InsideBBox(g) == g[2] + g[4] <= MaxY

\* the list of boxes on the rectangles f, the i-th with identity i
BoxSeq(f) == [i \in DOMAIN f |-> TextBoxOf(i, f[i])]

\* a run starts with 1..MaxBoxes boxes on different rectangles, in the order
\* of the lattice; a list of MaxBoxes boxes lies inside the bbox of the
\* container
ClusterInit ==
    /\ la = DefaultLAParams
    /\ cont = Idle /\ go = Idle /\ gl = Idle /\ an = Idle /\ pl = Idle /\ ov = Idle
    /\ ex = Idle /\ wd = Idle
    /\ \E k \in 1..MaxBoxes : \E f \in [1..k -> BoxShapes] :
          /\ \A i \in 1..(k - 1) : ShapeLess(f[i], f[i + 1])
          /\ k = MaxBoxes => \A i \in 1..k : InsideBBox(f[i])
          /\ gb = group_textboxes_start(ClusterBBox, BoxSeq(f))

\* one iteration of the while loop
GroupTextboxesBody ==
    /\ gb.cls = "group_textboxes" /\ gb.pc = "loop"
    /\ \E e \in gb.dists :
          /\ heappop_can(gb, e)
          /\ gb' = group_textboxes_body(gb, e)
    /\ UNCHANGED <<la, cont, go, gl, an, pl, ov, ex, wd>>

GroupTextboxesReturn ==
    /\ gb.cls = "group_textboxes" /\ gb.pc = "loop"
    /\ gb.dists = {}
    /\ gb' = group_textboxes_return(gb)
    /\ UNCHANGED <<la, cont, go, gl, an, pl, ov, ex, wd>>

ClusterNext == GroupTextboxesBody \/ GroupTextboxesReturn

SpecCluster == ClusterInit /\ [][ClusterNext]_vars

\* a run on 1..MaxFairBoxes boxes on different rectangles
ClusterFairInit ==
    /\ la = DefaultLAParams
    /\ cont = Idle /\ go = Idle /\ gl = Idle /\ an = Idle /\ pl = Idle /\ ov = Idle
    /\ ex = Idle /\ wd = Idle
    /\ \E k \in 1..MaxFairBoxes : \E f \in [1..k -> BoxShapes] :
          /\ \A i \in 1..(k - 1) : ShapeLess(f[i], f[i + 1])
          /\ gb = group_textboxes_start(ClusterBBox, BoxSeq(f))

\* the call runs on: a loop pass or the return is taken whenever one is possible
SpecClusterFair == ClusterFairInit /\ [][ClusterNext]_vars /\ WF_vars(ClusterNext)

-----------------------------------------------------------------------------
(* SpecAnalyze: LTLayoutContainer.analyze on a container of characters *)

\* the whitespace characters with identity id: single cells
SpaceSet(id) ==
    { LTChar(id, g[1] * Unit, g[2] * Unit, (g[1] + 1) * Unit, (g[2] + 1) * Unit, " ") :
        g \in (0..(MaxX - 1)) \X (0..(MaxY - 1)) }

\* the configurations of analyze: the defaults, and vertical detection with
\* line_margin 0; each with boxes_flow None and 0.5
AnalyzeParams ==
    { LAParams(5, 20, 5, 1, bf, FALSE, FALSE) : bf \in {NoFlow, Flow(5)} }
    \cup { LAParams(5, 20, 0, 1, bf, TRUE, FALSE) : bf \in {NoFlow, Flow(5)} }

AnalyzeInit ==
    /\ la \in AnalyzeParams
    /\ cont = Idle /\ go = Idle /\ gl = Idle /\ gb = Idle /\ pl = Idle /\ ov = Idle
    /\ ex = Idle /\ wd = Idle
    /\ \E k \in 0..MaxChars : \E f \in [1..k -> CharSet(0) \cup SpaceSet(0)] :
          an = LTLayoutContainer(PageBBox, CharSeq(f))

AnalyzeStart ==
    /\ an.pc = "start"
    /\ an.cls = "LTFigure" => la.all_texts
    /\ an' = analyze_start(an, la)
    /\ UNCHANGED <<la, cont, go, gl, gb, pl, ov, ex, wd>>

AnalyzeNoFlow ==
    /\ an.pc = "boxes"
    /\ la.boxes_flow.is_none
    /\ an' = analyze_noflow(an, la)
    /\ UNCHANGED <<la, cont, go, gl, gb, pl, ov, ex, wd>>

\* the call of group_textboxes
AnalyzeGroupTextboxes ==
    /\ an.pc = "boxes"
    /\ ~ la.boxes_flow.is_none
    /\ gb' = group_textboxes_start(an.bbox, an.textboxes)
    /\ an' = [an EXCEPT !.pc = "cluster"]
    /\ UNCHANGED <<la, cont, go, gl, pl, ov, ex, wd>>

AnalyzeFlow ==
    /\ an.pc = "cluster"
    /\ gb.pc = "done"
    /\ an' = analyze_flow(an, la, gb.result)
    /\ UNCHANGED <<la, cont, go, gl, gb, pl, ov, ex, wd>>

AnalyzeNext ==
    \/ AnalyzeStart
    \/ AnalyzeNoFlow
    \/ AnalyzeGroupTextboxes
    \/ GroupTextboxesBody
    \/ GroupTextboxesReturn
    \/ AnalyzeFlow

SpecAnalyze == AnalyzeInit /\ [][AnalyzeNext]_vars

-----------------------------------------------------------------------------
(* SpecSort: the boxes_flow None branch of analyze as a function of the      *)
(* list of text boxes                                                        *)

\* the rectangles and classes of the boxes: inside the bbox of the container
SortedShapes == {g \in BoxShapes : InsideBBox(g)} \X BOOLEAN

\* the list of boxes of the shapes f, the i-th with identity i
SortedBoxSeq(f) == [i \in DOMAIN f |-> TextBox(i, f[i][1], f[i][2])]

\* the container at the test of boxes_flow, with 1..MaxSorted boxes, its
\* children the characters of the boxes
SortInit ==
    /\ la = LAParams(5, 20, 5, 1, NoFlow, TRUE, FALSE)
    /\ cont = Idle /\ go = Idle /\ gl = Idle /\ gb = Idle /\ pl = Idle /\ ov = Idle
    /\ ex = Idle /\ wd = Idle
    /\ \E k \in 1..MaxSorted : \E f \in [1..k -> SortedShapes] :
          an = [LTLayoutContainer(ClusterBBox,
                    [i \in 1..k |-> SortedBoxSeq(f)[i].objs[1].objs[1]])
                EXCEPT !.textboxes = SortedBoxSeq(f), !.pc = "boxes"]

SortNext == AnalyzeNoFlow

SpecSort == SortInit /\ [][SortNext]_vars

-----------------------------------------------------------------------------
(* SpecPage: analyze on a page or a figure whose children are characters,    *)
(* rectangles and figures                                                    *)

\* children handed to the container of SpecPage
MaxKids == 3

\* the characters of SpecPage with identity id: single cells
PageChars(id) ==
    { LTChar(id, g[1] * Unit, g[2] * Unit, (g[1] + 1) * Unit, (g[2] + 1) * Unit, t) :
        g \in (0..(MaxX - 1)) \X (0..(MaxY - 1)), t \in {"a", " "} }

\* the children with identity id that are no characters: a rectangle, and
\* figures with no child, a character, two characters of one line, a space
\* and a character
PageOthers(id) ==
    LET a == LTChar(1, 0, 0, Unit, Unit, "a")
        b == LTChar(2, Unit, 0, 2 * Unit, Unit, "a")
        sp == LTChar(1, 0, Unit, Unit, 2 * Unit, " ")
    IN  { LTRect(id, 0, 0, Unit, Unit) }
        \cup { LTFigure(id, PageBBox, objs) : objs \in {<<>>, <<a>>, <<a, b>>, <<sp, b>>} }

\* boxes_flow None and 0.5, all_texts off and on
PageParams ==
    { LAParams(5, 20, 5, 1, bf, FALSE, at) : bf \in {NoFlow, Flow(5)}, at \in BOOLEAN }

PageInit ==
    /\ la \in PageParams
    /\ cont = Idle /\ go = Idle /\ gl = Idle /\ gb = Idle /\ pl = Idle /\ ov = Idle
    /\ ex = Idle /\ wd = Idle
    /\ \E k \in 0..MaxKids : \E f \in [1..k -> PageChars(0) \cup PageOthers(0)] :
          an \in { LTLayoutContainer(PageBBox, CharSeq(f)),
                   LTFigure(0, PageBBox, CharSeq(f)) }

\* LTFigure.analyze returns at once when all_texts is off
FigureReturn ==
    /\ an.pc = "start"
    /\ an.cls = "LTFigure" /\ ~ la.all_texts
    /\ an' = [LTFigure_analyze(an, la) EXCEPT !.pc = "done"]
    /\ UNCHANGED <<la, cont, go, gl, gb, pl, ov, ex, wd>>

PageNext == AnalyzeNext \/ FigureReturn

SpecPage == PageInit /\ [][PageNext]_vars

\* analyze is called once more, with the same configuration, on the
\* container it has returned from
AnalyzeAgain ==
    /\ an.pc = "done"
    /\ an' = analyze_again(an, la)
    /\ UNCHANGED <<la, cont, go, gl, gb, pl, ov, ex, wd>>

ReanalyzeNext == PageNext \/ AnalyzeAgain

SpecReanalyze == PageInit /\ [][ReanalyzeNext]_vars

-----------------------------------------------------------------------------
(* SpecParams: one call of the constructor of LAParams *)

\* the floats handed as boxes_flow are -MaxFlow/Den .. MaxFlow/Den
MaxFlow == 15

\* the values handed as boxes_flow
FlowValues ==
    {PyNone, PyNaN, PyStr("0.5"), PyStr("none")}
    \cup {PyBool(b) : b \in BOOLEAN}
    \cup {PyInt(n) : n \in -2..2}
    \cup {PyFloat(v) : v \in -MaxFlow..MaxFlow}

ParamsInit ==
    /\ cont = Idle /\ go = Idle /\ gl = Idle /\ gb = Idle /\ an = Idle
    /\ ex = Idle /\ wd = Idle
    /\ pl = Idle /\ ov = Idle
    /\ \E bf \in FlowValues, dv \in BOOLEAN, at \in BOOLEAN :
          la = [cls |-> "call",
                args |-> [line_overlap |-> 5, char_margin |-> 20, line_margin |-> 5,
                          word_margin |-> 1, boxes_flow |-> bf,
                          detect_vertical |-> dv, all_texts |-> at]]

\* LAParams(...)
ParamsConstruct ==
    /\ la.cls = "call"
    /\ la' = LAParams_init(la.args)
    /\ UNCHANGED <<cont, go, gl, gb, an, pl, ov, ex, wd>>

ParamsNext == ParamsConstruct

SpecParams == ParamsInit /\ [][ParamsNext]_vars

-----------------------------------------------------------------------------
(* SpecPlane: one Plane, the add and remove calls made on it, and one find  *)

\* objects that can be placed on the plane of SpecPlane
MaxItems == 2
\* add and remove calls made on the plane of SpecPlane
MaxCalls == 3

\* the bbox of the plane: four cells along x, two of them left of 0
PlaneBBox == [x0 |-> -2 * Unit, y0 |-> 0, x1 |-> 2 * Unit, y1 |-> Unit]

\* the rectangles of SpecPlane, scaled by Den: edges at -60, -0.5, -0.2, 0,
\* 40 and 120 along x (the last beyond the plane), at 0, 30 and 70 along y
\* (the last beyond the plane)
PlaneRects ==
    { [x0 |-> a, y0 |-> c[1], x1 |-> b, y1 |-> c[2]] :
        a \in {-600, -5, -2, 0, 400, 1200}, b \in {-600, -5, -2, 0, 400, 1200},
        c \in {<<0, 300>>, <<300, 700>>} }

PlaneInit ==
    /\ la = DefaultLAParams
    /\ cont = Idle /\ go = Idle /\ gl = Idle /\ gb = Idle /\ an = Idle /\ ov = Idle
    /\ ex = Idle /\ wd = Idle
    /\ \E f \in [1..MaxItems -> {r \in PlaneRects : r.x0 < r.x1}] :
          pl = [cls |-> "Plane", plane |-> Plane(PlaneBBox, GridSize),
                pool |-> [i \in 1..MaxItems |->
                             LTComponent(i, f[i].x0, f[i].y0, f[i].x1, f[i].y1)],
                calls |-> 0, query |-> None, found |-> <<>>, pc |-> "calls"]

\* plane.add(obj) for an object that is not on the plane
PlaneAdd ==
    /\ pl.pc = "calls" /\ pl.calls < MaxCalls
    /\ \E i \in 1..MaxItems :
          /\ i \notin pl.plane.objs
          /\ pl' = [pl EXCEPT !.plane = Plane_add(@, pl.pool[i]), !.calls = @ + 1]
    /\ UNCHANGED <<la, cont, go, gl, gb, an, ov, ex, wd>>

\* plane.remove(obj) for an object that is on the plane
PlaneRemove ==
    /\ pl.pc = "calls" /\ pl.calls < MaxCalls
    /\ \E i \in pl.plane.objs :
          pl' = [pl EXCEPT !.plane = Plane_remove(@, pl.pool[i]), !.calls = @ + 1]
    /\ UNCHANGED <<la, cont, go, gl, gb, an, ov, ex, wd>>

\* list(plane.find(bbox))
PlaneFind ==
    /\ pl.pc = "calls"
    /\ \E r \in {q \in PlaneRects : q.x0 < q.x1} :
          pl' = [pl EXCEPT !.query = r, !.found = Plane_find(pl.plane, r),
                           !.pc = "found"]
    /\ UNCHANGED <<la, cont, go, gl, gb, an, ov, ex, wd>>

PlaneNext == PlaneAdd \/ PlaneRemove \/ PlaneFind

SpecPlane == PlaneInit /\ [][PlaneNext]_vars

-----------------------------------------------------------------------------
(* SpecOverlap: hoverlap and voverlap of two components *)

\* the coordinates of the components of SpecOverlap are 0..MaxCoord
MaxCoord == 3

\* the intervals [v0, v1] of SpecOverlap
Intervals == { q \in (0..MaxCoord) \X (0..MaxCoord) : q[1] <= q[2] }

OverlapInit ==
    /\ la = DefaultLAParams
    /\ cont = Idle /\ go = Idle /\ gl = Idle /\ gb = Idle /\ an = Idle /\ pl = Idle
    /\ ex = Idle /\ wd = Idle
    /\ \E ax \in Intervals, ay \in Intervals, bx \in Intervals, by \in Intervals :
          ov = [cls |-> "overlap",
                self |-> LTComponent(1, ax[1], ay[1], ax[2], ay[2]),
                obj |-> LTComponent(2, bx[1], by[1], bx[2], by[2]),
                hoverlap |-> None, voverlap |-> None, pc |-> "call"]

\* self.hoverlap(obj) and self.voverlap(obj)
OverlapCall ==
    /\ ov.pc = "call"
    /\ ov' = [ov EXCEPT !.hoverlap = hoverlap(ov.self, ov.obj),
                        !.voverlap = voverlap(ov.self, ov.obj),
                        !.pc = "done"]
    /\ UNCHANGED <<la, cont, go, gl, gb, an, pl, ex, wd>>

OverlapNext == OverlapCall

SpecOverlap == OverlapInit /\ [][OverlapNext]_vars

-----------------------------------------------------------------------------
(* SpecExtract: one call of extract_page on a page of content objects *)

\* content objects on the page of SpecExtract
MaxObjects == 3

Glyph(x0, y0, x1, y1, text) ==
    [x0 |-> x0, y0 |-> y0, x1 |-> x1, y1 |-> y1, text |-> text]

TextObject(glyphs) == [tag |-> "TextObject", glyphs |-> glyphs]
PathObject(paths) == [tag |-> "PathObject", paths |-> paths]
XObjectObject(children) ==
    [tag |-> "XObjectObject", children |-> children,
     bbox |-> [x0 |-> 0, y0 |-> 0, x1 |-> 2 * Unit, y1 |-> Unit]]
ImageObject == [tag |-> "ImageObject",
                bbox |-> [x0 |-> 0, y0 |-> 0, x1 |-> Unit, y1 |-> Unit]]

\* a path from its operators and points (the point of an "h" is not read)
Path(ops, pts) == [i \in DOMAIN ops |-> [op |-> ops[i], pt |-> pts[i]]]

\* the text objects of SpecExtract: no glyph, one, two of a line, a space
\* and a glyph
TextObjects ==
    LET a == Glyph(0, 0, Unit, Unit, "a")
        b == Glyph(Unit, 0, 2 * Unit, Unit, "b")
        sp == Glyph(0, Unit, Unit, 2 * Unit, " ")
    IN  { TextObject(g) : g \in {<<>>, <<a>>, <<a, b>>, <<sp, b>>} }

\* the path objects of SpecExtract: a segment, a rectangle, a quadrilateral
\* that is no rectangle, a rectangle closed by a redundant "l", and a
\* triangle followed by a segment
PathObjects ==
    LET o == <<0, 0>>
        e == <<Unit, 0>>
        ne == <<Unit, Unit>>
        n == <<0, Unit>>
        far == <<2 * Unit, Unit>>
    IN  { PathObject(<<Path(<<"m", "l">>, <<o, ne>>)>>),
          PathObject(<<Path(<<"m", "l", "l", "l", "h">>, <<ne, n, o, e, o>>)>>),
          PathObject(<<Path(<<"m", "l", "l", "l", "h">>, <<o, e, far, n, o>>)>>),
          PathObject(<<Path(<<"m", "l", "l", "l", "l", "h">>, <<o, e, ne, n, o, o>>)>>),
          PathObject(<<Path(<<"m", "l", "l", "h">>, <<o, e, ne, o>>),
                       Path(<<"m", "l", "h">>, <<o, e, o>>)>>) }

\* the form XObjects of SpecExtract: without content, with text, with a
\* path, with an image, with text and a path, with a form of its own
XObjectObjects ==
    LET a == Glyph(0, 0, Unit, Unit, "a")
        b == Glyph(Unit, 0, 2 * Unit, Unit, "b")
        text == TextObject(<<a, b>>)
        path == PathObject(<<Path(<<"m", "l">>, <<<<0, 0>>, <<Unit, Unit>>>>)>>)
    IN  { XObjectObject(c) :
            c \in {<<>>, <<text>>, <<path>>, <<ImageObject>>, <<text, path>>,
                   <<XObjectObject(<<text>>)>>} }

\* the content objects of SpecExtract; the last one is of a type that has
\* no handler
ContentObjects ==
    TextObjects \cup PathObjects \cup XObjectObjects
        \cup {ImageObject, [tag |-> "ContentObject"]}

\* boxes_flow None and 0.5, all_texts off and on
ExtractParams == PageParams

ExtractInit ==
    /\ la \in ExtractParams
    /\ cont = Idle /\ go = Idle /\ gl = Idle /\ gb = Idle /\ an = Idle
    /\ pl = Idle /\ ov = Idle /\ wd = Idle
    /\ \E k \in 0..MaxObjects : \E f \in [1..k -> ContentObjects] :
       \E laparams \in {"None", "LAParams"} :
          /\ laparams = "None" => la = DefaultLAParams
          /\ ex = extract_page_start(f, laparams)

\* one pass of "for obj in page"
ExtractObject ==
    /\ ex.pc = "loop"
    /\ ex.pos < Len(ex.page)
    /\ ex' = extract_page_body(ex, ex.page[ex.pos + 1])
    /\ UNCHANGED <<la, cont, go, gl, gb, an, pl, ov, wd>>

\* the analysis, if any, and the return
ExtractEnd ==
    /\ ex.pc = "loop"
    /\ ex.pos = Len(ex.page)
    /\ ex' = extract_page_end(ex, la)
    /\ UNCHANGED <<la, cont, go, gl, gb, an, pl, ov, wd>>

ExtractNext == ExtractObject \/ ExtractEnd

SpecExtract == ExtractInit /\ [][ExtractNext]_vars

-----------------------------------------------------------------------------
(* SpecWords: one run of words over a stream of glyphs *)

\* glyphs of the stream
MaxGlyphs == 3

\* the glyphs with identity id of a page in the given space, set in a font
\* of the given writing mode: no text, a space or a letter; origins on two
\* columns and three rows; a short or a long advance along the writing
\* direction
GlyphSet(id, vertical, space) ==
    { GlyphObject(id, t, x, y, IF vertical THEN 0 ELSE d,
                  IF vertical THEN d ELSE 0, vertical, space) :
        t \in {NoText, Text(" "), Text("a")},
        x \in {0, Den}, y \in {0, 50 * Den, 160 * Den},
        d \in {4, Den} }

WordsInit ==
    /\ la = Idle /\ cont = Idle /\ go = Idle /\ gl = Idle /\ gb = Idle
    /\ an = Idle /\ pl = Idle /\ ov = Idle /\ ex = Idle
    /\ \E vertical \in BOOLEAN, space \in {"screen", "page"} :
       \E k \in 0..MaxGlyphs : \E f \in [1..k -> GlyphSet(0, vertical, space)] :
          wd = words_start([i \in 1..k |-> [f[i] EXCEPT !.id = i]])

WordsGlyph ==
    /\ wd.pc = "loop" /\ wd.pos < Len(wd.stream)
    /\ wd' = words_body(wd, wd.stream[wd.pos + 1])
    /\ UNCHANGED <<la, cont, go, gl, gb, an, pl, ov, ex>>

WordsEnd ==
    /\ wd.pc = "loop" /\ wd.pos = Len(wd.stream)
    /\ wd' = words_end(wd)
    /\ UNCHANGED <<la, cont, go, gl, gb, an, pl, ov, ex>>

WordsNext == WordsGlyph \/ WordsEnd

SpecWords == WordsInit /\ [][WordsNext]_vars

-----------------------------------------------------------------------------
(* Claims on SpecContainer *)

\* the characters of a line, in child order
CharsOf(c) == SelectSeq(c.objs, LAMBDA o : o.cls = "LTChar")

\* position in c.objs of the k-th character of the line
CharPos(c, k) ==
    CHOOSE i \in 1..Len(c.objs) :
        /\ c.objs[i].cls = "LTChar"
        /\ Cardinality({j \in 1..i : c.objs[j].cls = "LTChar"}) = k

\* a space glue sits immediately before the k-th character
SpaceBefore(c, k) ==
    /\ CharPos(c, k) > 1
    /\ c.objs[CharPos(c, k) - 1] = LTAnno(" ")

SetMin(S) == CHOOSE m \in S : \A n \in S : m <= n
SetMax(S) == CHOOSE m \in S : \A n \in S : m >= n

\* C3: an expandable container's bbox is the union of the bboxes of its
\* bbox-bearing children: the least x0 and y0 and the greatest x1 and y1 among
\* them (and the empty bbox of the constructor while it has no such child).
C3_BBoxIsUnionOfChildren ==
    (cont.cls # "Idle") =>
        LET ch == BBoxChildren(cont)
        IN  IF ch = {}
            THEN <<cont.x0, cont.y0, cont.x1, cont.y1>>
                    = <<INT32_MAX, INT32_MAX, INT32_MIN, INT32_MIN>>
            ELSE /\ cont.x0 = SetMin({o.x0 : o \in ch})
                 /\ cont.y0 = SetMin({o.y0 : o \in ch})
                 /\ cont.x1 = SetMax({o.x1 : o \in ch})
                 /\ cont.y1 = SetMax({o.y1 : o \in ch})

\* a container with glue children and with bbox children, the last added of
\* which lies inside the bbox the container already had
C3_Witness ==
    /\ cont.cls = "LTTextLineHorizontal"
    /\ Cardinality(BBoxChildren(cont)) = MaxAdds
    /\ \E i \in 1..Len(cont.objs) : ~ HasBBox(cont.objs[i])
    /\ LET last == cont.objs[Len(cont.objs)]
       IN  /\ HasBBox(last)
           /\ last.x1 < cont.x1
           /\ last.y1 < cont.y1

-----------------------------------------------------------------------------
(* Claims on SpecLines *)

\* the places <<k, j>> where the object with identity id is child j of the
\* k-th line of the sequence lines
PlacesOf(lines, id) ==
    { <<k, j>> \in (1..Len(lines)) \X (1..(2 * MaxChars + 2)) :
        /\ j <= Len(lines[k].objs)
        /\ lines[k].objs[j].cls # "LTAnno"
        /\ lines[k].objs[j].id = id }

\* C1: when group_objects has finished, every input character is a child of
\* exactly one emitted line, once.
C1_EveryCharInExactlyOneLine ==
    (go.cls # "Idle" /\ go.pc = "done") =>
        \A i \in 1..Len(go.objs) : Cardinality(PlacesOf(go.out, i)) = 1

\* a finished run that closed a line of two characters on a third character
\* that was then emitted alone
C1_Witness ==
    /\ go.cls # "Idle"
    /\ go.pc = "done"
    /\ Len(go.objs) = 3
    /\ Len(go.out) = 2
    /\ Len(CharsOf(go.out[1])) = 2
    /\ Len(CharsOf(go.out[2])) = 1

\* a pass of the loop of group_objects over the pair (prev, cur)
PairStep ==
    /\ go.cls = "group_objects" /\ go.pc = "loop"
    /\ go.obj0 # None
    /\ go'.pos = go.pos + 1
Prev == go.obj0
Cur == go.objs[go.pos + 1]

\* a line is open and the pair does not satisfy the alignment of its
\* orientation
Mismatch ==
    /\ go.line # None
    /\ ~ \/ (halign(Prev, Cur, la) /\ go.line.cls = "LTTextLineHorizontal")
         \/ (valign(Prev, Cur, la) /\ go.line.cls = "LTTextLineVertical")

\* exactly one of halign and valign holds for the pair
OneAlignment == halign(Prev, Cur, la) # valign(Prev, Cur, la)

\* the pass has emitted the open line
ClosesLine == go'.out = Append(go.out, go.line)

\* the pass has opened a line of the orientation of the alignment that
\* holds, with prev and cur in it
OpensMatchingLine ==
    /\ go'.line # None
    /\ go'.line.cls = (IF valign(Prev, Cur, la) THEN "LTTextLineVertical"
                       ELSE "LTTextLineHorizontal")
    /\ CharsOf(go'.line) = <<Prev, Cur>>

\* C22 as stated: when a line is open and the pair does not satisfy the
\* alignment of its orientation, the line is closed only if neither halign
\* nor valign holds, and if exactly one of them holds a new line of the
\* matching orientation is opened with prev and cur
C22_ClosedOnlyIfNeitherAligned ==
    [][(PairStep /\ Mismatch) =>
          /\ ClosesLine => (~ halign(Prev, Cur, la) /\ ~ valign(Prev, Cur, la))
          /\ OneAlignment => OpensMatchingLine]_vars

\* C22: when a line is open and the pair does not satisfy the alignment of
\* its orientation, the line is closed (emitted) whether or not the other
\* alignment holds, and no line is open after the pass; a new line of the
\* matching orientation is opened with prev and cur when no line is open and
\* exactly one of halign and valign holds, and nothing is emitted then
C22_MismatchAlwaysCloses ==
    [][PairStep =>
          /\ Mismatch => (ClosesLine /\ go'.line = None /\ go'.obj0 = Cur)
          /\ (go.line = None /\ OneAlignment) =>
                 (OpensMatchingLine /\ go'.out = go.out)]_vars

\* C22 happens: a horizontal line of two characters has been closed on a
\* character that is vertically, and not horizontally, aligned with the last
\* of them, and no line is open
C22_Witness ==
    /\ go.cls = "group_objects" /\ go.pc = "loop"
    /\ go.pos = 3 /\ go.line = None /\ Len(go.out) = 1
    /\ go.out[1].cls = "LTTextLineHorizontal"
    /\ CharsOf(go.out[1]) = <<go.objs[1], go.objs[2]>>
    /\ valign(go.objs[2], go.objs[3], la) /\ ~ halign(go.objs[2], go.objs[3], la)

-----------------------------------------------------------------------------
(* Claims on SpecVertical *)

\* the length of the intersection of the x-intervals of a and b, and the gap
\* between their y-intervals
XOverlap(a, b) == Max2(0, Min2(a.x1, b.x1) - Max2(a.x0, b.x0))
YOverlap(a, b) == Max2(0, Min2(a.y1, b.y1) - Max2(a.y0, b.y0))
YGap(a, b) == Max2(0, Max2(a.y0, b.y0) - Min2(a.y1, b.y1))

\* b is stacked under a: lower than a, overlapping a in x by more than
\* line_overlap * min(width), the gap less than char_margin * max(height)
StackedUnder(a, b) ==
    /\ b.y0 < a.y0 /\ b.y1 < a.y1
    /\ Den * XOverlap(a, b) > la.line_overlap * Min2(width(a), width(b))
    /\ Den * YGap(a, b) < la.char_margin * Max2(height(a), height(b))

\* the run is over a sequence of two or more characters stacked top to bottom
StackedRun ==
    /\ go.cls # "Idle" /\ go.pc = "done"
    /\ la.detect_vertical
    /\ Len(go.objs) >= 2
    /\ \A i \in 1..(Len(go.objs) - 1) : StackedUnder(go.objs[i], go.objs[i + 1])

\* group_objects has made one vertical line of all the characters, in order
OneVerticalLine ==
    /\ Len(go.out) = 1
    /\ go.out[1].cls = "LTTextLineVertical"
    /\ CharsOf(go.out[1]) = go.objs

\* C14 as stated: with detect_vertical on, characters stacked top to bottom
\* become one vertical line holding all of them
C14_StackedCharsOneLine == StackedRun => OneVerticalLine

\* C14: with detect_vertical on, characters stacked top to bottom become one
\* vertical line holding all of them when the first two do not overlap
\* vertically by more than line_overlap * min(height)
C14_StackedNotSideBySideOneLine ==
    (/\ StackedRun
     /\ Den * YOverlap(go.objs[1], go.objs[2])
            <= la.line_overlap * Min2(height(go.objs[1]), height(go.objs[2])))
    => OneVerticalLine

\* C14 happens: three stacked characters in one vertical line
C14_Witness ==
    /\ StackedRun
    /\ Len(go.objs) = 3
    /\ OneVerticalLine

-----------------------------------------------------------------------------
(* Claims on SpecBoxes *)

\* the places <<box, child>> of the yielded boxes where the line id is a child
BoxPlacesOf(out, id) ==
    { q \in (1..Len(out)) \X (1..MaxLines) :
        /\ q[2] <= Len(out[q[1]].objs)
        /\ out[q[1]].objs[q[2]].id = id }

\* C2: when group_textlines has finished, every input line is a child of
\* exactly one yielded text box, at exactly one place
C2_EveryLineInExactlyOneBox ==
    (gl.cls = "group_textlines" /\ gl.pc = "done") =>
        \A i \in 1..Len(gl.lines) :
            Cardinality(BoxPlacesOf(gl.out, gl.lines[i].id)) = 1

\* C2 happens: three lines end in one box that absorbed the box the first
\* line had made with the second, which the second line alone would not have
\* made (its own neighbours do not include the first line)
C2_Witness ==
    /\ gl.cls = "group_textlines" /\ gl.pc = "done"
    /\ Len(gl.lines) = 3 /\ Len(gl.out) = 1 /\ Len(gl.out[1].objs) = 3
    /\ gl.out[1].id = 3
    /\ Len(gl.boxtab[1].objs) = 2
    /\ \A i \in 1..Len(find_neighbors(gl.lines[2], gl.plane, la.line_margin)) :
           find_neighbors(gl.lines[2], gl.plane, la.line_margin)[i].id # 1

\* the pairs of lines linked by a chain in which, for each consecutive pair,
\* one line was returned by find_neighbors of the other
Linked ==
    TransitiveClosure({ q \in (DOMAIN gl.near) \X (DOMAIN gl.near) :
                          q[2] \in gl.near[q[1]] \/ q[1] \in gl.near[q[2]] })

\* the yielded boxes that hold the line with identity id
BoxesOf(id) == { q[1] : q \in BoxPlacesOf(gl.out, id) }

\* C23: when group_textlines has finished, every yielded box holds a line,
\* every line is in exactly one yielded box, and two lines are in the same
\* yielded box exactly when they are linked by a chain of lines in which,
\* for each consecutive pair, one line was returned by find_neighbors of the
\* other: one box per connected component of the neighbour relation
C23_BoxesAreConnectedComponents ==
    (gl.cls = "group_textlines" /\ gl.pc = "done") =>
        \A linked \in {Linked} :
        \A boxes \in {[i \in 1..Len(gl.lines) |-> BoxesOf(i)]} :
            /\ \A k \in 1..Len(gl.out) : gl.out[k].objs # <<>>
            /\ \A i \in 1..Len(gl.lines) : Cardinality(boxes[i]) = 1
            /\ \A i, j \in 1..Len(gl.lines) :
                   (boxes[i] = boxes[j]) <=> (i = j \/ <<i, j>> \in linked)

\* C23 happens: of three lines the first returns the second, which does not
\* return the first, the third is linked with neither, and two boxes have
\* been yielded
C23_Witness ==
    /\ gl.cls = "group_textlines" /\ gl.pc = "done"
    /\ Len(gl.lines) = 3 /\ Len(gl.out) = 2
    /\ BoxesOf(1) = BoxesOf(2)
    /\ 2 \in gl.near[1] /\ 1 \notin gl.near[2]
    /\ <<1, 3>> \notin Linked /\ <<2, 3>> \notin Linked

-----------------------------------------------------------------------------
(* Claims on SpecCluster *)

\* the boxes below an object of the group tree
RECURSIVE Leaves(_)
Leaves(o) ==
    IF o.cls \in {"LTTextBoxHorizontal", "LTTextBoxVertical"} THEN {o.id}
    ELSE UNION { Leaves(o.objs[i]) : i \in 1..Len(o.objs) }

\* the groups a run has made, each as the set of the boxes below it
Clusters(st) == { Leaves(st.objs[k]) : k \in (Len(st.boxes) + 1)..Len(st.objs) }

Finished == gb.cls = "group_textboxes" /\ gb.pc = "done"

\* C4: whatever the id() values that break the ties of the queue, a finished
\* run of group_textboxes has made the groups that the run makes in which
\* the id() values grow in the order of construction
C4_GroupsIndependentOfIds ==
    Finished =>
        Clusters(gb) = Clusters(group_textboxes(
                           [x0 |-> gb.plane.x0, y0 |-> gb.plane.y0,
                            x1 |-> gb.plane.x1, y1 |-> gb.plane.y1], gb.boxes))

\* C5 as stated: no merge is made while another live object overlaps the
\* bounding rectangle of the pair
C5_NoMergeAcrossLiveObject ==
    gb.cls = "group_textboxes" =>
        \A i \in 1..Len(gb.log) : gb.log[i].between = {}

\* the part of the object o inside the bounding rectangle of a and b lies
\* outside the rectangle bbox
HiddenFrom(bbox, o, a, b) ==
    \/ Min2(Min2(o.x1, Max2(a.x1, b.x1)), bbox.x1)
           <= Max2(Max2(o.x0, Min2(a.x0, b.x0)), bbox.x0)
    \/ Min2(Min2(o.y1, Max2(a.y1, b.y1)), bbox.y1)
           <= Max2(Max2(o.y0, Min2(a.y0, b.y0)), bbox.y0)

\* C5: the veto defers a merge and does not prevent it.  A merge made while
\* the plane finds another live object in the bounding rectangle of the pair
\* comes from an entry that was vetoed and queued again, and the queue then
\* holds no entry that has not been vetoed; a live object that overlaps the
\* rectangle only outside the bbox of the container is not found at all
C5_VetoOnlyDefers ==
    gb.cls = "group_textboxes" =>
        \A i \in 1..Len(gb.log) :
            LET m == gb.log[i]
            IN  /\ m.found # {} => (m.skip /\ m.unvetoed = {})
                /\ m.found \subseteq m.between
                /\ \A o \in m.between \ m.found :
                       HiddenFrom(gb.plane, gb.objs[o],
                                  gb.objs[m.id1], gb.objs[m.id2])

\* C5 happens: a merge has been made across a live object the plane found
C5_Witness ==
    /\ gb.cls = "group_textboxes"
    /\ \E i \in 1..Len(gb.log) : gb.log[i].found # {} /\ gb.log[i].skip

\* c lies strictly between a and b along an axis, inside their bounding
\* rectangle
StrictlyBetween(c, a, b) ==
    /\ \/ a.x1 <= c.x0 /\ c.x1 <= b.x0
       \/ b.x1 <= c.x0 /\ c.x1 <= a.x0
       \/ a.y1 <= c.y0 /\ c.y1 <= b.y0
       \/ b.y1 <= c.y0 /\ c.y1 <= a.y0
    /\ ~ \/ c.x1 <= Min2(a.x0, b.x0) \/ Max2(a.x1, b.x1) <= c.x0
         \/ c.y1 <= Min2(a.y0, b.y0) \/ Max2(a.y1, b.y1) <= c.y0

Merged(m, a, b) == {m.id1, m.id2} = {a.id, b.id}

\* the run merges (a, c) or (b, c) before it ever merges (a, b)
ThirdFirst(st, a, b, c) ==
    \A k \in 1..Len(st.log) :
        Merged(st.log[k], a, b) =>
            \E j \in 1..(k - 1) :
                Merged(st.log[j], a, c) \/ Merged(st.log[j], b, c)

Within(bbox, o) ==
    bbox.x0 <= o.x0 /\ o.x1 <= bbox.x1 /\ bbox.y0 <= o.y0 /\ o.y1 <= bbox.y1

-----------------------------------------------------------------------------
(* Claims on SpecAnalyze and SpecSort *)

AnalyzedNoFlow == an.cls = "LTLayoutContainer" /\ an.pc = "done" /\ la.boxes_flow.is_none
AnalyzedFlow == an.cls = "LTLayoutContainer" /\ an.pc = "done" /\ ~ la.boxes_flow.is_none

\* a horizontal text box with the given top and left edge
HBoxAt(o, top, left) == o.cls = "LTTextBoxHorizontal" /\ o.y1 = top /\ o.x0 = left

TextBoxes == SelectSeq(an.objs, IsTextBox)

\* C9 as stated: with boxes_flow None the vertical boxes come before the
\* horizontal ones, vertical boxes by descending x1 then descending y0,
\* horizontal boxes by descending top edge y1 then ascending x0
C9_HorizontalByTopEdge ==
    AnalyzedNoFlow =>
        \A i, j \in 1..Len(TextBoxes) :
            i < j =>
                LET a == TextBoxes[i]
                    b == TextBoxes[j]
                IN  /\ a.cls = "LTTextBoxVertical" \/ b.cls = "LTTextBoxHorizontal"
                    /\ (a.cls = "LTTextBoxVertical" /\ b.cls = "LTTextBoxVertical") =>
                           (a.x1 > b.x1 \/ (a.x1 = b.x1 /\ a.y0 >= b.y0))
                    /\ (a.cls = "LTTextBoxHorizontal" /\ b.cls = "LTTextBoxHorizontal") =>
                           (a.y1 > b.y1 \/ (a.y1 = b.y1 /\ a.x0 <= b.x0))

\* C9: with boxes_flow None the vertical boxes come before the horizontal
\* ones, vertical boxes by descending x1 then descending y0, horizontal
\* boxes by descending bottom edge y0 then ascending x0
C9_HorizontalByBottomEdge ==
    AnalyzedNoFlow =>
        \A i, j \in 1..Len(TextBoxes) :
            i < j =>
                LET a == TextBoxes[i]
                    b == TextBoxes[j]
                IN  /\ a.cls = "LTTextBoxVertical" \/ b.cls = "LTTextBoxHorizontal"
                    /\ (a.cls = "LTTextBoxVertical" /\ b.cls = "LTTextBoxVertical") =>
                           (a.x1 > b.x1 \/ (a.x1 = b.x1 /\ a.y0 >= b.y0))
                    /\ (a.cls = "LTTextBoxHorizontal" /\ b.cls = "LTTextBoxHorizontal") =>
                           (a.y0 > b.y0 \/ (a.y0 = b.y0 /\ a.x0 <= b.x0))

\* C9 happens: the sort has moved a box; two vertical boxes with the same
\* right edge are followed by a horizontal box
C9_Witness ==
    /\ AnalyzedNoFlow
    /\ Len(TextBoxes) = 3
    /\ TextBoxes[1].cls = "LTTextBoxVertical" /\ TextBoxes[2].cls = "LTTextBoxVertical"
    /\ TextBoxes[1].x1 = TextBoxes[2].x1 /\ TextBoxes[1].y0 > TextBoxes[2].y0
    /\ TextBoxes[3].cls = "LTTextBoxHorizontal"
    /\ TextBoxes[1].id = 3

\* a second case of C9: two horizontal boxes whose top edges are in the
\* other order than their bottom edges
C9_WitnessHorizontal ==
    /\ AnalyzedNoFlow
    /\ \E i, j \in 1..Len(TextBoxes) :
          /\ i < j
          /\ TextBoxes[i].cls = "LTTextBoxHorizontal"
          /\ TextBoxes[j].cls = "LTTextBoxHorizontal"
          /\ TextBoxes[i].y1 < TextBoxes[j].y1

\* the text boxes of a group tree in depth-first pre-order
RECURSIVE PreOrder(_)
RECURSIVE PreOrderEach(_)
PreOrderEach(objs) ==
    IF objs = <<>> THEN <<>> ELSE PreOrder(Head(objs)) \o PreOrderEach(Tail(objs))
PreOrder(obj) ==
    IF IsTextBox(obj) THEN <<obj>>
    ELSE IF IsTextGroup(obj) THEN PreOrderEach(obj.objs)
    ELSE <<>>

\* the groups of a group tree
RECURSIVE GroupsBelow(_)
GroupsBelow(obj) ==
    IF IsTextGroup(obj)
    THEN {obj} \cup UNION { GroupsBelow(obj.objs[i]) : i \in 1..Len(obj.objs) }
    ELSE {}

\* the groups of a container, none while self.groups is None
GroupsOf(c) == c.groups.list

FlowKey(group, obj) ==
    IF group.cls = "LTTextGroupTBRL" THEN LTTextGroupTBRL_key(obj, la)
    ELSE LTTextGroupLRTB_key(obj, la)

\* C10: with boxes_flow a number, after analyze the n text boxes of the
\* container carry the indices 0..n-1, each once; the index of a box is its
\* place in the depth-first pre-order of the group tree, in which the
\* children of every group are sorted by the flow key; and the container
\* lists its text boxes by strictly increasing index
C10_IndicesInPreOrder ==
    AnalyzedFlow =>
        LET pre == PreOrderEach(GroupsOf(an))
            n == Len(TextBoxes)
        IN  /\ \A k \in 0..(n - 1) :
                   Cardinality({i \in 1..n : TextBoxes[i].index = k}) = 1
            /\ \A i \in 1..n : TextBoxes[i].index \in 0..(n - 1)
            /\ Len(pre) = n
            /\ \A k \in 1..Len(pre) : pre[k].index = k - 1
            /\ SeqToSet(pre) = SeqToSet(TextBoxes)
            /\ \A i \in 1..(n - 1) : TextBoxes[i].index < TextBoxes[i + 1].index
            /\ \A g \in UNION { GroupsBelow(GroupsOf(an)[i]) : i \in 1..Len(GroupsOf(an)) } :
                   \A i, j \in 1..Len(g.objs) :
                       i < j => ~ LexLess(FlowKey(g, g.objs[j]), FlowKey(g, g.objs[i]))

\* C10 happens: three text boxes in a tree of two groups, the boxes are not
\* listed in the order group_textlines made them
C10_Witness ==
    /\ AnalyzedFlow
    /\ Len(TextBoxes) = 3
    /\ Len(GroupsOf(an)) = 1
    /\ \E i \in 1..2 : IsTextGroup(GroupsOf(an)[1].objs[i])
    /\ \E i \in 1..3 : TextBoxes[i].id # i
    /\ \A i \in 1..3 : TextBoxes[i].index = i - 1

-----------------------------------------------------------------------------
(* Claims on SpecPage *)

IsChar(o) == o.cls = "LTChar"
IsTextLine(o) == o.cls \in {"LTTextLineHorizontal", "LTTextLineVertical"}
IsOther(o) == o.cls \in {"LTRect", "LTFigure"}

\* analyze has run to its end on the container (it was not a figure left
\* alone because all_texts is off)
PageAnalyzed ==
    /\ an.cls \in {"LTLayoutContainer", "LTFigure"}
    /\ an.pc = "done"
    /\ an.cls = "LTFigure" => la.all_texts

\* the children analyze was called with, characters only / others only
GivenChars == SelectSeq(an.given, IsChar)
GivenOthers == SelectSeq(an.given, IsOther)

\* where the character with identity id sits below the children of the
\* container: <<child, line, place>> in a box, <<child, 0, place>> in a line
PagePlaces(id) ==
    { q \in (1..Len(an.objs)) \X (0..MaxKids) \X (1..(2 * MaxKids)) :
        LET o == an.objs[q[1]]
        IN  \/ /\ IsTextBox(o) /\ q[2] \in 1..Len(o.objs)
               /\ q[3] \in 1..Len(o.objs[q[2]].objs)
               /\ IsChar(o.objs[q[2]].objs[q[3]])
               /\ o.objs[q[2]].objs[q[3]].id = id
            \/ /\ IsTextLine(o) /\ q[2] = 0 /\ q[3] \in 1..Len(o.objs)
               /\ IsChar(o.objs[q[3]]) /\ o.objs[q[3]].id = id }

\* the text boxes among the children are in the order of analyze: by getkey
\* when boxes_flow is None, by index 0, 1, 2, ... otherwise
BoxesOrdered(boxes) ==
    IF la.boxes_flow.is_none
    THEN \A i, j \in 1..Len(boxes) :
             i < j => ~ LexLess(getkey(boxes[j]), getkey(boxes[i]))
    ELSE \A i \in 1..Len(boxes) : boxes[i].index = i - 1

\* C11: after analyze of a container with at least one character its
\* children are the ordered text boxes, then the children that are no
\* characters, the same objects in their original order, then the empty
\* lines; no character is a direct child, and every character sits in
\* exactly one line of a box or empty line
C11_ChildrenAreBoxesOthersEmpties ==
    (PageAnalyzed /\ GivenChars # <<>>) =>
        LET boxes == SelectSeq(an.objs, IsTextBox)
            others == SelectSeq(an.objs, IsOther)
            empties == SelectSeq(an.objs, IsTextLine)
        IN  /\ an.objs = boxes \o others \o empties
            /\ BoxesOrdered(boxes)
            /\ Len(others) = Len(GivenOthers)
            /\ \A i \in 1..Len(others) :
                   /\ others[i].id = GivenOthers[i].id
                   /\ others[i].cls = GivenOthers[i].cls
                   /\ others[i].cls = "LTRect" => others[i] = GivenOthers[i]
            /\ \A i \in 1..Len(empties) : LTTextLine_is_empty(empties[i])
            /\ \A i \in 1..Len(boxes) : \A j \in 1..Len(boxes[i].objs) :
                   ~ LTTextLine_is_empty(boxes[i].objs[j])
            /\ \A i \in 1..Len(GivenChars) :
                   Cardinality(PagePlaces(GivenChars[i].id)) = 1

\* C11 happens: a figure, a character and a rectangle, in this order, have
\* become a text box, the figure and the rectangle
C11_Witness ==
    /\ PageAnalyzed
    /\ ~ la.boxes_flow.is_none
    /\ Len(an.given) = 3
    /\ an.given[1].cls = "LTFigure" /\ IsChar(an.given[2]) /\ an.given[3].cls = "LTRect"
    /\ IsTextBox(an.objs[1]) /\ an.objs[2].id = 1 /\ an.objs[3].id = 3

\* a second case of C11: a box, a rectangle and an empty line
C11_WitnessEmptyLine ==
    /\ PageAnalyzed
    /\ Len(an.objs) = 3
    /\ IsTextBox(an.objs[1]) /\ an.objs[2].cls = "LTRect" /\ IsTextLine(an.objs[3])

\* C12: when the container has no character, analyze makes no text box and
\* leaves the list of children as it was: the same objects in the same
\* order, whatever the configuration
C12_NoCharsNoChange ==
    (an.cls \in {"LTLayoutContainer", "LTFigure"} /\ an.pc = "done" /\ GivenChars = <<>>) =>
        /\ an.textboxes = <<>>
        /\ an.groups = NoGroups
        /\ Len(an.objs) = Len(an.given)
        /\ \A i \in 1..Len(an.objs) :
               /\ an.objs[i].id = an.given[i].id
               /\ an.objs[i].cls = an.given[i].cls
               /\ an.objs[i].cls = "LTRect" => an.objs[i] = an.given[i]

\* C12 happens: analyze has run on a page whose children are a rectangle and
\* two figures, and with all_texts on a figure below it was analyzed
C12_Witness ==
    /\ an.cls = "LTLayoutContainer" /\ an.pc = "done"
    /\ la.all_texts
    /\ Len(an.given) = 3
    /\ an.given[1].cls = "LTRect"
    /\ an.objs[2].cls = "LTFigure" /\ an.objs[2].pc = "done"
    /\ an.objs[3].cls = "LTFigure"

-----------------------------------------------------------------------------
(* Claims on SpecParams *)

\* the constructor has returned or raised
Constructed == "cls" \in DOMAIN la /\ la.cls # "call"

\* the number handed as boxes_flow lies in [-1, 1]
InRange(x) == ~ x.nan /\ -Den <= x.v /\ x.v <= Den

\* C13: the constructor of LAParams raises PDFTypeError when boxes_flow is
\* neither None nor a number (an int, a float or a bool), raises
\* PDFValueError when it is a number outside [-1, 1], and returns the
\* configuration, with the other arguments as given, for None and for
\* every number in [-1, 1]
C13_BoxesFlowValidated ==
    Constructed =>
        LET x == la.args.boxes_flow
        IN  /\ (x.type # "NoneType" /\ ~ IsNumber(x)) => la.cls = "PDFTypeError"
            /\ (IsNumber(x) /\ ~ InRange(x)) => la.cls = "PDFValueError"
            /\ (x.type = "NoneType" \/ (IsNumber(x) /\ InRange(x))) =>
                   /\ la.cls = "LAParams"
                   /\ la.self.boxes_flow.is_none = (x.type = "NoneType")
                   /\ ~ la.self.boxes_flow.is_none => la.self.boxes_flow.v = x.v
                   /\ la.self.all_texts = la.args.all_texts
                   /\ la.self.detect_vertical = la.args.detect_vertical

\* C13 happens: the constructor has raised for the float 1.1
C13_Witness ==
    /\ Constructed
    /\ la.args.boxes_flow = PyFloat(Den + 1)
    /\ la.cls = "PDFValueError"

\* further cases of C13: a str is refused, 1.0 and None are taken
C13_WitnessTypeError ==
    Constructed /\ la.args.boxes_flow.type = "str" /\ la.cls = "PDFTypeError"
C13_WitnessAccepted ==
    Constructed /\ la.args.boxes_flow = PyFloat(Den) /\ la.cls = "LAParams"

-----------------------------------------------------------------------------
(* Claims on SpecPlane *)

\* the objects that are on the plane
Members == { pl.pool[i] : i \in pl.plane.objs }

\* the rectangles a and r overlap on both axes, touching not counted
StrictOverlap(a, r) ==
    /\ a.x0 < r.x1 /\ r.x0 < a.x1
    /\ a.y0 < r.y1 /\ r.y0 < a.y1

\* the part of the rectangle r inside the bounds of the plane
Clipped(r) ==
    [x0 |-> Max2(r.x0, Den * pl.plane.x0), y0 |-> Max2(r.y0, Den * pl.plane.y0),
     x1 |-> Min2(r.x1, Den * pl.plane.x1), y1 |-> Min2(r.y1, Den * pl.plane.y1)]

\* C15, read with "inside the bounds of the plane": after add and remove
\* calls find(rect) returns, once each, the members that overlap rect on both
\* axes, touching not counted, somewhere inside the bounds of the plane, and
\* nothing else
C15_FindReturnsOverlappingMembers ==
    (pl.cls = "Plane" /\ pl.pc = "found") =>
        /\ \A i, j \in 1..Len(pl.found) : i # j => pl.found[i].id # pl.found[j].id
        /\ \A i \in 1..Len(pl.found) :
               /\ pl.found[i] \in Members
               /\ StrictOverlap(pl.found[i], pl.query)
        /\ \A o \in Members :
               StrictOverlap(Clipped(o), Clipped(pl.query)) => o \in SeqToSet(pl.found)

\* C16: after add and remove calls the iteration of the plane yields the
\* members, each once, and as many items as len(plane)
C16_IterYieldsMembersOnce ==
    pl.cls = "Plane" =>
        LET it == Plane_iter(pl.plane)
        IN  /\ SeqToSet(it) = Members
            /\ Len(it) = Cardinality(pl.plane.objs)
            /\ \A i, j \in 1..Len(it) : i # j => it[i].id # it[j].id

-----------------------------------------------------------------------------
(* Further claims on SpecCluster *)

\* C17: for n >= 1 text boxes group_textboxes returns a list of exactly one
\* object, and the text boxes below it are the n boxes of the input, each
\* once
C17_OneTopLevelObject ==
    (Finished /\ Len(gb.boxes) >= 1) =>
        /\ Len(gb.result) = 1
        /\ LET pre == PreOrder(gb.result[1])
           IN  /\ Len(pre) = Len(gb.boxes)
               /\ \A i \in 1..Len(gb.boxes) :
                      Cardinality({k \in 1..Len(pre) : pre[k] = gb.boxes[i]}) = 1

\* C17 happens: the largest number of boxes
\* have come back as one group
C17_Witness ==
    /\ Finished
    /\ Len(gb.boxes) = MaxBoxes
    /\ Len(gb.result) = 1
    /\ IsTextGroup(gb.result[1])

\* a second case of C17: a box that the grid of the plane does not hold
\* (it lies above the bbox of the container) is below the one group
C17_WitnessOutside ==
    /\ Finished
    /\ Len(gb.result) = 1
    /\ \E i \in 1..Len(gb.boxes) :
          /\ gb.boxes[i].y0 >= gb.plane.y1
          /\ gb.boxes[i].id \in Leaves(gb.result[1])
    /\ Len(gb.boxes) = 3

\* C24: every element of the list group_textboxes returns is a text group
C24_ResultOnlyGroups ==
    Finished => \A i \in 1..Len(gb.result) : IsTextGroup(gb.result[i])

\* C25: at every point of group_textboxes no two tuples of the queue have
\* the same (veto flag, distance, id1, id2): the queue holds as many
\* different such prefixes as it holds tuples
C25_QueuePrefixesDiffer ==
    gb.cls = "group_textboxes" => Cardinality(gb.dists) = gb.ndists

\* C25 happens: a group has been made, and a vetoed pair is back in the queue
\* next to an unvetoed tuple of the same distance
C25_Witness ==
    /\ gb.cls = "group_textboxes" /\ gb.pc = "loop"
    /\ gb.ndists >= 2
    /\ Len(gb.objs) > Len(gb.boxes)
    /\ \E e, f \in gb.dists : e.skip /\ ~ f.skip /\ e.d = f.d

\* the tuple a loop pass has popped
Popped == gb.dists \ gb'.dists

\* the objects in the plane
Live(st) == { o.id : o \in SeqToSet(Plane_iter(st.plane)) }

\* C26: group_textboxes terminates: the queue becomes empty and the call
\* returns; a pair that is pushed back is pushed back flagged and a flagged
\* pair is never pushed back, and every merge takes two objects out of the
\* plane and puts one in
C26_Terminates ==
    /\ <>(gb.pc = "done")
    /\ [][(gb.pc = "loop" /\ gb'.pc = "loop") =>
            \A e \in Popped :
               /\ \A f \in gb'.dists \ gb.dists :
                     (f.id1 = e.id1 /\ f.id2 = e.id2) => (f.skip /\ ~ e.skip)
               /\ Len(gb'.objs) > Len(gb.objs) =>
                     /\ Live(gb') = (Live(gb) \ {e.id1, e.id2}) \cup {Len(gb'.objs)}
                     /\ Cardinality(Live(gb')) = Cardinality(Live(gb)) - 1]_vars

\* C26 happens: the call has returned after a pass that pushed a vetoed pair
\* back and a pass that merged that pair
C26_Witness ==
    /\ gb.cls = "group_textboxes" /\ gb.pc = "done"
    /\ gb.dists = {}
    /\ \E i \in 1..Len(gb.log) : gb.log[i].skip

\* C27: at every iteration of the clustering loop each input box is, or is
\* below, exactly one object in the plane; an identity is in done exactly
\* when its object is a child of a group made and is not in the plane; and
\* the queue holds a tuple for every pair of objects in the plane
C27_LoopInvariant ==
    (gb.cls = "group_textboxes" /\ gb.pc = "loop") =>
        \A live \in {Live(gb)} :
            /\ \A i \in 1..Len(gb.boxes) :
                  Cardinality({ k \in live : gb.boxes[i].id \in Leaves(gb.objs[k]) }) = 1
            /\ \A k \in 1..Len(gb.objs) :
                  k \in gb.done <=>
                      /\ k \notin live
                      /\ \E g \in 1..Len(gb.objs) :
                            /\ IsTextGroup(gb.objs[g])
                            /\ \E j \in 1..Len(gb.objs[g].objs) : gb.objs[g].objs[j].id = k
            /\ \A k, l \in live :
                  k < l => \E e \in gb.dists : {e.id1, e.id2} = {k, l}

\* C27 happens: after two merges a group and a box are in the plane, four
\* identities are done and the queue still holds the pair
C27_Witness ==
    /\ gb.cls = "group_textboxes" /\ gb.pc = "loop"
    /\ Len(gb.boxes) = MaxBoxes
    /\ Cardinality(gb.done) = 4
    /\ Cardinality(Live(gb)) = 2
    /\ \E k \in Live(gb) : IsTextBox(gb.objs[k])
    /\ gb.dists # {}

-----------------------------------------------------------------------------
(* Further claims on SpecPage *)

\* the text lines below a container: the children of its text boxes, the
\* lines among its children, and the lines below its figures
RECURSIVE LinesBelow(_)
LinesBelow(c) ==
    UNION { LET o == c.objs[i]
            IN  IF IsTextBox(o) THEN SeqToSet(o.objs)
                ELSE IF IsTextLine(o) THEN {o}
                ELSE IF o.cls = "LTFigure" THEN LinesBelow(o)
                ELSE {} : i \in 1..Len(c.objs) }

\* the line ends with a newline LTAnno and holds no other one
EndsWithOneNewline(line) ==
    /\ line.objs # <<>>
    /\ line.objs[Len(line.objs)] = LTAnno("\n")
    /\ \A i \in 1..(Len(line.objs) - 1) : line.objs[i] # LTAnno("\n")

\* C18: after analyze of a container, with boxes_flow None or a number,
\* every text line it has made, in a text box or among the empty lines, ends
\* with one newline LTAnno and holds no other newline LTAnno
C18_EveryLineEndsWithOneNewline ==
    (an.cls \in {"LTLayoutContainer", "LTFigure"} /\ an.pc = "done") =>
        \A line \in LinesBelow(an) : EndsWithOneNewline(line)

\* C18 happens: with boxes_flow a number, analyze has left a text box and
\* an empty line, and both lines end with the newline
C18_Witness ==
    /\ PageAnalyzed
    /\ ~ la.boxes_flow.is_none
    /\ \E i, j \in 1..Len(an.objs) : IsTextBox(an.objs[i]) /\ IsTextLine(an.objs[j])
    /\ \A line \in LinesBelow(an) : EndsWithOneNewline(line)

\* the figures among the children analyze was called with
GivenFigures == { an.given[i] : i \in { j \in 1..Len(an.given) : an.given[j].cls = "LTFigure" } }

\* C19: analyze of a figure with all_texts off changes nothing in it: its
\* children, their order and its groups stay as they were, no line and no
\* box is made (the same holds for a figure among the children of an
\* analyzed container); with all_texts on a figure with characters is
\* analyzed as a page is: no character stays a direct child
C19_FigureAnalyzedOnlyWithAllTexts ==
    (an.cls \in {"LTLayoutContainer", "LTFigure"} /\ an.pc = "done") =>
        /\ (an.cls = "LTFigure" /\ ~ la.all_texts) =>
               /\ an.objs = an.given
               /\ an.groups = NoGroups /\ an.textboxes = <<>> /\ an.empties = <<>>
        /\ ~ la.all_texts =>
               \A i \in 1..Len(an.objs) :
                   an.objs[i].cls = "LTFigure" => an.objs[i] \in GivenFigures
        /\ (an.cls = "LTFigure" /\ la.all_texts /\ GivenChars # <<>>) =>
               /\ \A i \in 1..Len(an.objs) : ~ IsChar(an.objs[i])
               /\ \E i \in 1..Len(an.objs) : IsTextBox(an.objs[i]) \/ IsTextLine(an.objs[i])

\* C19 happens: analyze has returned from a figure of two characters and a
\* figure with all_texts off, and they are its children as before
C19_Witness ==
    /\ an.cls = "LTFigure" /\ an.pc = "done"
    /\ ~ la.all_texts
    /\ Len(an.objs) = 3
    /\ IsChar(an.objs[1]) /\ IsChar(an.objs[2])
    /\ an.objs[3].cls = "LTFigure" /\ an.objs[3].objs # <<>>

\* a second case of C19: with all_texts on the figure has a text box
C19_WitnessAnalyzed ==
    /\ an.cls = "LTFigure" /\ an.pc = "done"
    /\ la.all_texts
    /\ \E i \in 1..Len(an.objs) : IsTextBox(an.objs[i])

-----------------------------------------------------------------------------
(* Claims on SpecOverlap *)

\* C20: hoverlap of two rectangles is 0 when their x-intervals do not
\* overlap and else the length of the intersection of the x-intervals (the
\* smaller right edge minus the larger left edge), also when one interval
\* holds the other; voverlap is the same on the y axis
C20_OverlapIsIntersectionLength ==
    (ov.cls = "overlap" /\ ov.pc = "done") =>
        /\ ov.hoverlap = XOverlap(ov.self, ov.obj)
        /\ ov.voverlap = YOverlap(ov.self, ov.obj)

-----------------------------------------------------------------------------
(* Claims on SpecExtract *)

\* what the content objects of a page stand for, in the order of the
\* content stream: a glyph each for the glyphs of a text object, a path each
\* for the paths of a path object, a form for a form XObject or an image
RECURSIVE Sources(_)
Sources(page) ==
    IF page = <<>> THEN <<>>
    ELSE LET o == Head(page)
             own == CASE o.tag = "TextObject" ->
                            [i \in 1..Len(o.glyphs) |->
                                [kind |-> "glyph", glyph |-> o.glyphs[i]]]
                      [] o.tag = "PathObject" ->
                            [i \in 1..Len(o.paths) |-> [kind |-> "path"]]
                      [] o.tag \in {"XObjectObject", "ImageObject"} ->
                            <<[kind |-> "form"]>>
                      [] OTHER -> <<>>
         IN  own \o Sources(Tail(page))

\* the layout item is what the source stands for
ItemOf(item, src) ==
    CASE src.kind = "glyph" ->
            /\ item.cls = "LTChar" /\ item.text = src.glyph.text
            /\ <<item.x0, item.y0, item.x1, item.y1>>
                  = <<src.glyph.x0, src.glyph.y0, src.glyph.x1, src.glyph.y1>>
      [] src.kind = "path" -> item.cls \in {"LTLine", "LTRect", "LTCurve"}
      [] OTHER -> item.cls = "LTFigure"

\* C21: extract_page called without layout parameters returns a page whose
\* children are the layout items made from the content objects of the page,
\* one per glyph, path and form, in the order of the content stream, each a
\* different object; no text line, text box or group is among them and
\* groups is still None
C21_NoParamsNoAnalysis ==
    (ex.cls = "extract_page" /\ ex.pc = "done" /\ ex.laparams = "None") =>
        LET src == Sources(ex.page)
            objs == ex.ltpage.objs
        IN  /\ Len(objs) = Len(src)
            /\ \A i \in 1..Len(objs) : ItemOf(objs[i], src[i])
            /\ \A i, j \in 1..Len(objs) : i < j => objs[i].id < objs[j].id
            /\ ex.ltpage.groups = NoGroups
            /\ ex.ltpage.textboxes = <<>> /\ ex.ltpage.empties = <<>>

\* C21 happens: a page of two glyphs, a rectangle and a form has come back
\* as two characters, a rectangle and a figure
C21_Witness ==
    /\ ex.cls = "extract_page" /\ ex.pc = "done" /\ ex.laparams = "None"
    /\ Len(ex.page) = 3
    /\ Len(ex.ltpage.objs) = 4
    /\ ex.ltpage.objs[1].cls = "LTChar" /\ ex.ltpage.objs[2].cls = "LTChar"
    /\ ex.ltpage.objs[3].cls = "LTRect"
    /\ ex.ltpage.objs[4].cls = "LTFigure" /\ ex.ltpage.objs[4].objs # <<>>

\* the figures at and below an object
RECURSIVE FiguresBelow(_)
FiguresBelow(o) ==
    IF o.cls \in {"LTPage", "LTFigure"}
    THEN (IF o.cls = "LTFigure" THEN {o} ELSE {})
            \cup UNION { FiguresBelow(o.objs[i]) : i \in 1..Len(o.objs) }
    ELSE {}

\* the content of the page holds a form XObject
HasForm == \E i \in 1..Len(ex.page) : ex.page[i].tag = "XObjectObject"

\* C29: once extract_page has returned or raised on a page with a form
\* XObject, the children of every figure are layout items (characters,
\* lines, rectangles, curves, images, figures) and, when it was called with
\* all_texts on, the analysis has ended without an error
C29_FormChildrenAreItems ==
    (ex.cls = "extract_page" /\ ex.pc # "loop" /\ HasForm) =>
        /\ \A fig \in FiguresBelow(ex.ltpage) :
               \A i \in 1..Len(fig.objs) :
                   fig.objs[i].cls \in {"LTChar", "LTLine", "LTRect", "LTCurve",
                                        "LTImage", "LTFigure", "LTTextBoxHorizontal",
                                        "LTTextBoxVertical", "LTTextLineHorizontal",
                                        "LTTextLineVertical"}
        /\ (ex.laparams # "None" /\ la.all_texts) => ex.pc = "done"

-----------------------------------------------------------------------------
(* Claims on SpecReanalyze *)

\* the step that is the second call of analyze
SecondAnalyze == an.pc = "done" /\ an'.pc = "again"

\* an object of the tree without the newlines its lines end with
RECURSIVE WithoutNewlines(_)
WithoutNewlines(obj) ==
    IF obj.cls \in {"LTChar", "LTAnno", "LTRect"} THEN obj
    ELSE IF IsTextLine(obj)
    THEN [obj EXCEPT !.objs = SelectSeq(@, LAMBDA o : o # LTAnno("\n"))]
    ELSE [obj EXCEPT !.objs = [i \in 1..Len(@) |-> WithoutNewlines(@[i])]]

\* the number of newlines a line ends with
RECURSIVE Newlines(_)
Newlines(objs) ==
    IF objs = <<>> \/ objs[Len(objs)] # LTAnno("\n") THEN 0
    ELSE 1 + Newlines(SubSeq(objs, 1, Len(objs) - 1))

\* C28 as stated: a second call of analyze leaves the children of the
\* container and its groups as they were
C28_SecondAnalyzeChangesNothing ==
    [][SecondAnalyze => (an'.objs = an.objs /\ an'.groups = an.groups)]_vars

\* C28: a second call of analyze leaves the children, their order, their
\* boxes and the indices as they were up to the newlines of the lines, and
\* every line below the container ends with one newline more, two in all;
\* the tree is unchanged exactly when no line is below the container
C28_SecondAnalyzeAddsNewlines ==
    [][SecondAnalyze =>
          /\ [i \in 1..Len(an'.objs) |-> WithoutNewlines(an'.objs[i])]
                 = [i \in 1..Len(an.objs) |-> WithoutNewlines(an.objs[i])]
          /\ \A line \in LinesBelow(an) : Newlines(line.objs) = 1
          /\ \A line \in LinesBelow(an') : Newlines(line.objs) = 2
          /\ Cardinality(LinesBelow(an')) = Cardinality(LinesBelow(an))
          /\ (an'.objs = an.objs) <=> (LinesBelow(an) = {})
          /\ an'.groups.is_none = an.groups.is_none
          /\ \A i \in 1..Len(GroupsOf(an')) :
                \A b \in BoxesBelow(GroupsOf(an')[i]) :
                    \E j \in 1..Len(an'.objs) : an'.objs[j] = b]_vars

\* C28 happens: analyze has been called twice on a container with a text
\* box, an empty line and a figure that holds a line, with boxes_flow a
\* number, and each of the lines ends with two newlines
C28_Witness ==
    /\ an.cls = "LTLayoutContainer" /\ an.pc = "again"
    /\ ~ la.boxes_flow.is_none
    /\ \E i, j \in 1..Len(an.objs) : IsTextBox(an.objs[i]) /\ IsTextLine(an.objs[j])
    /\ \E i \in 1..Len(an.objs) :
          an.objs[i].cls = "LTFigure" /\ LinesBelow(an.objs[i]) # {}
    /\ \A line \in LinesBelow(an) : Newlines(line.objs) = 2

-----------------------------------------------------------------------------
(* Claims on SpecWords *)

\* the glyph has a text that is no space
Lettered(glyph) == ~ glyph.text.is_none /\ glyph.text # Text(" ")

\* the glyphs of the words one after the other
RECURSIVE AllGlyphs(_)
AllGlyphs(ws) ==
    IF ws = <<>> THEN <<>> ELSE Head(ws).glyphs \o AllGlyphs(Tail(ws))

\* the words that hold the glyph at place i of the stream
WordsOf(i) ==
    { k \in 1..Len(wd.out) :
        \E j \in 1..Len(wd.out[k].glyphs) : wd.out[k].glyphs[j].id = i }

\* C30: when words has finished, the glyphs of the yielded words, taken one
\* word after the other, are the glyphs of the stream whose text is neither
\* None nor a space, each once and in stream order; no word is empty, no
\* word holds a space glyph, and two such glyphs with a space glyph between
\* them are in different words
C30_WordsPartitionStream ==
    (wd.cls = "words" /\ wd.pc = "done") =>
        /\ AllGlyphs(wd.out) = SelectSeq(wd.stream, Lettered)
        /\ \A k \in 1..Len(wd.out) :
              /\ wd.out[k].glyphs # <<>>
              /\ \A j \in 1..Len(wd.out[k].glyphs) : Lettered(wd.out[k].glyphs[j])
        /\ \A i \in 1..Len(wd.stream) :
              Lettered(wd.stream[i]) => Cardinality(WordsOf(i)) = 1
        /\ \A i, k, j \in 1..Len(wd.stream) :
              (/\ i < k /\ k < j
               /\ Lettered(wd.stream[i]) /\ Lettered(wd.stream[j])
               /\ wd.stream[k].text = Text(" "))
                  => WordsOf(i) \cap WordsOf(j) = {}

\* C30 happens: a letter, a space glyph set right where the letter ends and
\* a letter set no further than where the space ends, all on one line, have
\* given two words of one glyph
C30_Witness ==
    /\ wd.cls = "words" /\ wd.pc = "done"
    /\ Len(wd.stream) = 3 /\ Len(wd.out) = 2
    /\ Lettered(wd.stream[1]) /\ wd.stream[2].text = Text(" ") /\ Lettered(wd.stream[3])
    /\ ~ wd.stream[1].vertical
    /\ wd.stream[1].y = wd.stream[2].y /\ wd.stream[2].y = wd.stream[3].y
    /\ wd.stream[2].x = wd.stream[1].x + wd.stream[1].dx
    /\ wd.stream[3].x <= wd.stream[2].x + wd.stream[2].dx

\* a second case of C30: two letters with a glyph without text between them
\* are in one word
C30_WitnessOneWord ==
    /\ wd.cls = "words" /\ wd.pc = "done"
    /\ Len(wd.stream) = 3 /\ Len(wd.out) = 1
    /\ Lettered(wd.stream[1]) /\ wd.stream[2].text.is_none /\ Lettered(wd.stream[3])

====
